---- MODULE Spec2Model ----
(***************************************************************************)
(* Model of the session-backed LinkedIn extraction engine of open-sdr:     *)
(* the browser session runner (withLinkedin), the candidate harvester and  *)
(* the traversal operations built on them.                                 *)
(*                                                                         *)
(* Strings are sequences of one-character strings, so that the regular     *)
(* expressions and the URL canonicalisation of the code are computed, not  *)
(* assumed.                                                                *)
(***************************************************************************)
EXTENDS Integers, Sequences, FiniteSets, TLC

VARIABLES
    cookieStore,   \* the cookie-store file: "absent", "valid" or "corrupt"
    thisBrowser,   \* the field this.browser; 0 is undefined
    browserState,  \* every browser process: "unlaunched", "open" or "closed"
    call,          \* per caller: the traversal call in progress and its locals
    opsStarted,    \* number of traversal calls made so far
    hAnchors,      \* harvester input: href of every <a href> of the page, DOM order
    hDomLinks,     \* result of the in-page evaluate (regex filter, exact dedup)
    hCleaned,      \* hDomLinks after .map(cleanUrlQueryParams)
    hCandidates,   \* profileUrls: hCleaned after the slug filter
    hDone,         \* the harvester has run
    storedCookies, \* the cookies a readable cookie-store file holds
    login,         \* the login() call, its browser and its capture timer
    clean,         \* cleanUrlQueryParams applied to a string, and to its result
    disk,          \* the file system under the working directory
    wcall,         \* the writeMarkdown call in progress and its locals
    research,      \* the Firecrawl.deepResearch call: its promise and its polls
    tools,         \* the module variable tools of getToolsLazy; 0 is undefined
    getting        \* per caller of getToolsLazy: its position and what it got

hvars == <<hAnchors, hDomLinks, hCleaned, hCandidates, hDone>>
svars == <<cookieStore, thisBrowser, browserState, call, opsStarted>>
lvars == <<storedCookies, login>>
uvars == <<clean>>
wvars == <<disk, wcall>>
rvars == <<research>>
tvars == <<tools, getting>>
xvars == <<rvars, tvars>>
vars == <<svars, hvars, lvars, uvars, wvars, xvars>>

-----------------------------------------------------------------------------
(* Strings *)

LowerAlpha == <<"a","b","c","d","e","f","g","h","i","j","k","l","m",
                "n","o","p","q","r","s","t","u","v","w","x","y","z">>
UpperAlpha == <<"A","B","C","D","E","F","G","H","I","J","K","L","M",
                "N","O","P","Q","R","S","T","U","V","W","X","Y","Z">>
Digits == {"0","1","2","3","4","5","6","7","8","9"}

Range(s) == {s[i] : i \in 1..Len(s)}

Letters == Range(LowerAlpha) \cup Range(UpperAlpha)

\* String.prototype.toLowerCase, one character
LowerChar(ch) ==
    IF ch \in Range(UpperAlpha)
    THEN LowerAlpha[CHOOSE i \in 1..Len(UpperAlpha) : UpperAlpha[i] = ch]
    ELSE ch

\* String.prototype.toLowerCase
ToLowerCase(s) == [i \in 1..Len(s) |-> LowerChar(s[i])]

\* s has pat at position i (1-based)
StartsWithAt(s, i, pat) ==
    /\ i >= 1
    /\ i + Len(pat) - 1 <= Len(s)
    /\ \A k \in 1..Len(pat) : s[i + k - 1] = pat[k]

\* String.prototype.includes
Includes(s, pat) == \E i \in 1..(Len(s) + 1) : StartsWithAt(s, i, pat)

\* String.prototype.indexOf, 1-based; 0 when absent
IndexOfStr(s, pat) ==
    IF Includes(s, pat)
    THEN CHOOSE i \in 1..(Len(s) + 1) :
            /\ StartsWithAt(s, i, pat)
            /\ \A j \in 1..(i - 1) : ~StartsWithAt(s, j, pat)
    ELSE 0

\* the smallest position >= from whose character is in stops; Len(s)+1 if none
FirstOf(s, from, stops) ==
    IF \E i \in from..Len(s) : s[i] \in stops
    THEN CHOOSE i \in from..Len(s) :
            /\ s[i] \in stops
            /\ \A j \in from..(i - 1) : s[j] \notin stops
    ELSE Len(s) + 1

\* the smallest position >= from whose character is not in cls; Len(s)+1 if none
FirstNotOf(s, from, cls) ==
    IF \E i \in from..Len(s) : s[i] \notin cls
    THEN CHOOSE i \in from..Len(s) :
            /\ s[i] \notin cls
            /\ \A j \in from..(i - 1) : s[j] \in cls
    ELSE Len(s) + 1

Rep(ch, n) == [i \in 1..n |-> ch]

\* the subsequence of s at the positions idx, in increasing order
RECURSIVE SubseqAt(_, _)
SubseqAt(s, idx) ==
    IF idx = {} THEN <<>>
    ELSE LET m == CHOOSE i \in idx : \A j \in idx : i <= j
         IN  <<s[m]>> \o SubseqAt(s, idx \ {m})

-----------------------------------------------------------------------------
(* URL canonicalisation: src/src/url.ts *)

Https == <<"h","t","t","p","s">>
Http == <<"h","t","t","p">>
NullOrigin == <<"n","u","l","l">>

\* new URL(url) without a base, for the inputs of the model: absolute
\* http(s) URLs whose authority has neither credentials nor a port and whose
\* path has no dot segments and no character that is percent-encoded; URLs
\* of a scheme that is not special (urn:, mailto:, ...; not blob:) whose
\* path does not begin with a slash, which have an opaque path and the
\* origin "null"; a string without a scheme does not parse (TypeError).
ParseURL(url) ==
    LET colon  == FirstOf(url, 1, {":"})
        scheme == ToLowerCase(SubSeq(url, 1, colon - 1))
        okScheme ==
            /\ colon <= Len(url)
            /\ colon > 1
            /\ url[1] \in Letters
            /\ \A i \in 1..(colon - 1) : url[i] \in Letters \cup Digits \cup {"+", "-", "."}
    IN  IF ~okScheme THEN [ok |-> FALSE, origin |-> <<>>, pathname |-> <<>>]
        ELSE IF scheme \in {Https, Http}
        THEN LET hostStart == FirstNotOf(url, colon + 1, {"/"})
                 hostEnd   == FirstOf(url, hostStart, {"/", "?", "#"})
                 host      == ToLowerCase(SubSeq(url, hostStart, hostEnd - 1))
                 pathEnd   == FirstOf(url, hostEnd, {"?", "#"})
                 path      == SubSeq(url, hostEnd, pathEnd - 1)
             IN  IF host = <<>>
                 THEN [ok |-> FALSE, origin |-> <<>>, pathname |-> <<>>]
                 ELSE [ok |-> TRUE,
                       origin |-> scheme \o <<":", "/", "/">> \o host,
                       pathname |-> IF path = <<>> THEN <<"/">> ELSE path]
        ELSE LET pathEnd == FirstOf(url, colon + 1, {"?", "#"})
             IN  [ok |-> TRUE,
                  origin |-> NullOrigin,
                  pathname |-> SubSeq(url, colon + 1, pathEnd - 1)]

cleanUrlQueryParams(url) ==
    IF url = <<>> THEN url
    ELSE LET urlObj == ParseURL(url)
         IN  IF urlObj.ok THEN urlObj.origin \o urlObj.pathname ELSE url

-----------------------------------------------------------------------------
(* Candidate harvester: extractProfilesFromLinkedin, lines 272-302 *)

LinkedinOrigin == <<"h","t","t","p","s",":","/","/","w","w","w",".",
                    "l","i","n","k","e","d","i","n",".","c","o","m">>
InSegment == <<"/","i","n","/">>
ProfilePrefix == LinkedinOrigin \o InSegment
LinkedinComIn == <<"l","i","n","k","e","d","i","n",".","c","o","m">> \o InSegment

\* the regular-expression class [\w-]
SlugChars == Letters \cup Digits \cup {"_", "-"}

SlugMaxLen == 38

\* href.match(/https:\/\/www\.linkedin\.com\/in\/[\w-]+/)
MatchesProfileHref(href) ==
    \E i \in 1..Len(href) :
        /\ StartsWithAt(href, i, ProfilePrefix)
        /\ i + Len(ProfilePrefix) <= Len(href)
        /\ href[i + Len(ProfilePrefix)] \in SlugChars

\* url.match(/linkedin\.com\/in\/([\w-]+)/): the leftmost match, its group 1
SlugMatch(url) ==
    LET Hit(i) == /\ StartsWithAt(url, i, LinkedinComIn)
                  /\ i + Len(LinkedinComIn) <= Len(url)
                  /\ url[i + Len(LinkedinComIn)] \in SlugChars
    IN  IF \E i \in 1..Len(url) : Hit(i)
        THEN LET i == CHOOSE k \in 1..Len(url) :
                        Hit(k) /\ \A j \in 1..(k - 1) : ~Hit(j)
                 from == i + Len(LinkedinComIn)
             IN  [matched |-> TRUE,
                  slug |-> SubSeq(url, from, FirstNotOf(url, from, SlugChars) - 1)]
        ELSE [matched |-> FALSE, slug |-> <<>>]

\* /\d/.test(slug)
HasDigit(s) == \E i \in 1..Len(s) : s[i] \in Digits

\* the slug filter with the length test off by one (>= instead of >)
SlugFilterKeeps_AtLeast(url) ==
    LET match == SlugMatch(url)
    IN  IF ~match.matched THEN FALSE
        ELSE IF Len(match.slug) >= SlugMaxLen /\ HasDigit(match.slug) THEN FALSE
        ELSE TRUE

\* the predicate of the slug filter, lines 288-302
SlugFilterKeeps(url) ==
    LET match == SlugMatch(url)
    IN  IF ~match.matched THEN FALSE
        ELSE IF Len(match.slug) > SlugMaxLen /\ HasDigit(match.slug) THEN FALSE
        ELSE TRUE

\* .filter((href, index, self) => self.indexOf(href) === index), keeping the
\* last occurrence instead of the first
DedupExact_KeepLast(links) ==
    SubseqAt(links, {i \in 1..Len(links) :
                        \A j \in (i + 1)..Len(links) : links[j] # links[i]})

\* .filter((href, index, self) => self.indexOf(href) === index)
DedupExact(links) ==
    SubseqAt(links, {i \in 1..Len(links) :
                        \A j \in 1..(i - 1) : links[j] # links[i]})

\* the page.evaluate of lines 273-285: the anchors the selector
\* a[href*="linkedin.com/in/"] finds, those matching the profile pattern,
\* without exact duplicates
DomProfileLinks(anchors) ==
    LET selected == SelectSeq(anchors, LAMBDA h : Includes(h, LinkedinComIn))
        matching == SelectSeq(selected, LAMBDA h : h # <<>> /\ MatchesProfileHref(h))
    IN  DedupExact(matching)

\* .map(cleanUrlQueryParams)
CleanAll(links) == [i \in 1..Len(links) |-> cleanUrlQueryParams(links[i])]

\* profileUrls of lines 272-302
HarvestCandidates(anchors) ==
    SelectSeq(CleanAll(DomProfileLinks(anchors)), SlugFilterKeeps)

-----------------------------------------------------------------------------
(* The harvester on bounded page contents *)

MaxAnchors == 3

Str_bob == <<"b","o","b">>
Str_al1 == <<"a","l","1">>
QueryA == <<"?","t","=","a">>
QueryB == <<"?","t","=","b">>

\* the hrefs a page may carry
HrefPool ==
    { ProfilePrefix \o Str_bob,
      ProfilePrefix \o Str_bob \o QueryA,
      ProfilePrefix \o Str_bob \o QueryB,
      ProfilePrefix \o Str_al1,
      ProfilePrefix \o Str_al1 \o <<"/">>,
      \* 38 characters with a digit, 39 with a digit, 39 without
      ProfilePrefix \o Rep("a", SlugMaxLen - 1) \o <<"7">>,
      ProfilePrefix \o Rep("a", SlugMaxLen) \o <<"7">>,
      ProfilePrefix \o Rep("a", SlugMaxLen + 1),
      \* a percent-encoded segment of 40 characters
      ProfilePrefix \o <<"r","%","c","3">> \o Rep("a", SlugMaxLen - 2),
      \* the profile pattern inside the query of another page
      <<"h","t","t","p","s",":","/","/","x",".","c","o","/","s","?","u","=">>
          \o ProfilePrefix \o Str_bob,
      \* a relative link carrying the pattern
      <<"/","r","?","u","=">> \o ProfilePrefix \o Str_bob,
      \* not a profile link
      LinkedinOrigin \o <<"/","f","e","e","d","/">> }

RECURSIVE SeqsUpTo(_, _)
SeqsUpTo(S, n) ==
    IF n = 0 THEN {<<>>}
    ELSE LET shorter == SeqsUpTo(S, n - 1)
         IN  shorter \cup {Append(s, x) : s \in shorter, x \in S}



-----------------------------------------------------------------------------
(* Values, profiles and URLs of the session machine *)

MaxBrowsers == 3
MaxOps == 2
MaxResponse == 2
MaxButtons == 3

\* the tasks that make traversal calls on the one LinkedIn object
Callers == {"main", "other"}
\* the task of a caller that makes its calls one after the other
Serial == {"main"}
BrowserIds == 1..MaxBrowsers

\* JavaScript values that withLinkedin and fn return
Undefined == [t |-> "undefined", s |-> <<>>, ps |-> <<>>, b |-> FALSE]
NullV == [t |-> "null", s |-> <<>>, ps |-> <<>>, b |-> FALSE]
StrV(x) == [t |-> "string", s |-> x, ps |-> <<>>, b |-> FALSE]
ProfilesV(list) == [t |-> "profiles", s |-> <<>>, ps |-> list, b |-> FALSE]
ProfileV(p) == [t |-> "profile", s |-> <<>>, ps |-> <<p>>, b |-> FALSE]
BoolV(x) == [t |-> "bool", s |-> <<>>, ps |-> <<>>, b |-> x]

\* JavaScript truthiness of such a value
Truthy(v) ==
    CASE v.t = "string" -> v.s # <<>>
      [] v.t = "bool" -> v.b
      [] v.t \in {"profiles", "profile"} -> TRUE
      [] OTHER -> FALSE

NoResult == [kind |-> "none", val |-> Undefined, err |-> ""]
Returned(v) == [kind |-> "return", val |-> v, err |-> ""]
Thrown(e) == [kind |-> "throw", val |-> Undefined, err |-> e]

Profile(name, role, company, profileUrl) ==
    [name |-> name, role |-> role, company |-> company, profileUrl |-> profileUrl]
NoProfile == Profile(<<>>, <<>>, <<>>, <<>>)

NoUrl == [kind |-> "none", text |-> <<>>, network |-> ""]
HrefUrl(href) == [kind |-> "href", text |-> href, network |-> ""]
\* https://www.linkedin.com/search/results/people/?keywords=<query>[&network=["<n>"]]
SearchUrl(query, network) == [kind |-> "search", text |-> query, network |-> network]

IdleCall ==
    [op |-> "idle", personName |-> <<>>, companyName |-> <<>>, degree |-> "",
     target |-> <<>>, stage |-> "none", pc |-> "idle", url |-> NoUrl,
     browser |-> 0, pend |-> NoResult, wl |-> NoResult,
     person |-> NoProfile, links |-> <<>>, cand |-> <<>>, resp |-> <<>>,
     probed |-> FALSE, shortcut |-> FALSE, ev |-> <<>>, navs |-> 0, recons |-> 0,
     buttons |-> 0, outcome |-> NoResult]

-----------------------------------------------------------------------------
(* Inputs of the session machine *)

Str_jo == <<"j","o">>
Str_Jo == <<"J","o">>
Str_Al == <<"A","l">>
Str_ac == <<"a","C">>
Str_XAc == <<"X","A","c">>
Str_Oth == <<"O","t","h">>
Str_vp == <<"v","p">>
Space == <<" ">>

PersonNames == {Str_jo}
CompanyNames == {Str_ac}
Degrees == {"first", "second"}

ProfileJo == ProfilePrefix \o Str_jo
ProfileJoQ == ProfilePrefix \o Str_jo \o QueryA
ProfileAl == ProfilePrefix \o Str_al1
InventedUrl == ProfilePrefix \o <<"z","e","d">>

\* what the page's anchors may be when the harvester runs
PageAnchorLists ==
    { <<>>,
      <<ProfileJoQ>>,
      <<ProfileJoQ, ProfileAl>>,
      <<ProfileAl, ProfileJoQ, ProfileAl>>,
      <<ProfileJoQ, ProfileJo>> }

\* the people a reconciliation response may describe
PersonPool == { [name |-> Str_Jo, company |-> Str_XAc],
                [name |-> Str_Al, company |-> Str_Oth] }

ResponseProfiles(candidates) ==
    { Profile(p.name, Str_vp, p.company, u) :
        p \in PersonPool, u \in Range(candidates) \cup {InventedUrl} }

\* an <a> element whose text is 'View full profile'
Anchor(hasHref, href) == [hasHref |-> hasHref, href |-> href]
\* the 'View full profile' anchors a search page may carry, DOM order
ViewProfileAnchorLists ==
    { <<>>,
      <<Anchor(TRUE, ProfileJoQ)>>,
      <<Anchor(TRUE, <<>>)>>,
      <<Anchor(FALSE, <<>>)>>,
      <<Anchor(FALSE, <<>>), Anchor(TRUE, ProfileJoQ)>>,
      <<Anchor(TRUE, ProfileJoQ), Anchor(TRUE, ProfileAl)>> }

FacetF == <<"f","a","c","e","t","N","e","t","w","o","r","k","=","%","2","2","F","%","2","2">>
FacetS == <<"f","a","c","e","t","N","e","t","w","o","r","k","=","%","2","2","S","%","2","2">>
FacetNetwork == <<"f","a","c","e","t","N","e","t","w","o","r","k">>
FacetConnectionOf == <<"f","a","c","e","t","C","o","n","n","e","c","t","i","o","n","O","f","=">>
SearchPath == LinkedinOrigin \o <<"/","s","?">>
Amp == <<"&">>

MutualsHref == SearchPath \o FacetF \o Amp \o FacetConnectionOf \o <<"9">>
SecondDegreeHref == SearchPath \o FacetS \o Amp \o FacetConnectionOf \o <<"9">>
NetworkOnlyHref == SearchPath \o FacetF

\* the hrefs of the profile page's anchors, DOM order
ProfilePageLinkLists ==
    { <<>>,
      <<ProfileAl>>,
      <<SecondDegreeHref, NetworkOnlyHref>>,
      <<NetworkOnlyHref, MutualsHref>> }

-----------------------------------------------------------------------------
(* The browser session runner: withLinkedin, lines 320-372 *)

Headless(c) == call[c].stage # "draft"
\* options.useExistingBrowser taken to be false for every call
UseExistingBrowser_Never(c) == FALSE

UseExistingBrowser(c) == call[c].stage = "draft"

\* what the current withLinkedin call has done so far, in order
Log(c, k) == Append(call[c].ev, k)

\* fs.existsSync(this.cookiesPath), taken to be true without looking
CookieStoreExists_Always == TRUE

\* fs.existsSync(this.cookiesPath)
CookieStoreExists == cookieStore # "absent"

\* enter withLinkedin(url, fn, options) for the stage
EnterWithLinkedin(c, stage, url) ==
    [call[c] EXCEPT !.stage = stage, !.url = url, !.pc = "acquire",
                    !.browser = 0, !.pend = NoResult, !.wl = NoResult,
                    !.ev = <<>>]

\* a handle that names no live browser and that nothing refers to: the next
\* launch may be given it
FreeHandle(b) ==
    /\ browserState[b] # "open"
    /\ thisBrowser # b
    /\ \A c \in Callers : call[c].browser # b

\* lines 328-336, the existing browser: no await, the field is re-assigned
WLReuse(c) ==
    /\ call[c].pc = "acquire"
    /\ UseExistingBrowser(c) /\ thisBrowser # 0
    /\ call' = [call EXCEPT ![c].browser = thisBrowser,
                            ![c].pc = "pages",
                            ![c].ev = Log(c, "reuse")]
    /\ UNCHANGED <<cookieStore, thisBrowser, browserState, opsStarted>>

\* lines 328-335: the condition is false, puppeteer.launch is awaited
WLLaunchBegin(c) ==
    /\ call[c].pc = "acquire"
    /\ ~(UseExistingBrowser(c) /\ thisBrowser # 0)
    /\ call' = [call EXCEPT ![c].pc = "launching"]
    /\ UNCHANGED <<cookieStore, thisBrowser, browserState, opsStarted>>

\* lines 331-336: the launch resolves; this.browser = browser
WLLaunched(c) ==
    /\ call[c].pc = "launching"
    /\ \E b \in BrowserIds :
        /\ FreeHandle(b)
        /\ \A x \in BrowserIds : x < b => ~FreeHandle(x)
        /\ browserState' = [browserState EXCEPT ![b] = "open"]
        /\ thisBrowser' = b
        /\ call' = [call EXCEPT ![c].browser = b,
                                ![c].pc = "pages",
                                ![c].ev = Log(c, "launch")]
    /\ UNCHANGED <<cookieStore, opsStarted>>

\* lines 331-335: the launch rejects; nothing was acquired, withLinkedin throws
WLLaunchFails(c) ==
    /\ call[c].pc = "launching"
    /\ call' = [call EXCEPT ![c].pc = "resume",
                            ![c].wl = Thrown("LaunchError")]
    /\ UNCHANGED <<cookieStore, thisBrowser, browserState, opsStarted>>

\* lines 338-340: browser.pages() and browser.newPage() resolve
WLPage(c) ==
    /\ call[c].pc = "pages"
    /\ browserState[call[c].browser] = "open"
    /\ call' = [call EXCEPT ![c].pc = "cookies", ![c].ev = Log(c, "page")]
    /\ UNCHANGED <<cookieStore, thisBrowser, browserState, opsStarted>>

\* lines 338-340: browser.pages() or browser.newPage() rejects; the statement
\* is outside the try block, so the error leaves withLinkedin at once
WLPageFails(c) ==
    /\ call[c].pc = "pages"
    /\ call' = [call EXCEPT ![c].pc = "resume",
                            ![c].wl = Thrown("PageError")]
    /\ UNCHANGED <<cookieStore, thisBrowser, browserState, opsStarted>>

\* lines 343-351: the store exists; read, parse and page.setCookie, any
\* error of which is caught and logged as a warning
WLLoadCookies(c) ==
    /\ call[c].pc = "cookies"
    /\ CookieStoreExists
    /\ \/ /\ cookieStore = "valid"
          /\ call' = [call EXCEPT ![c].pc = "goto", ![c].ev = Log(c, "setCookie")]
       \/ /\ call' = [call EXCEPT ![c].pc = "goto", ![c].ev = Log(c, "warnCookies")]
    /\ UNCHANGED <<cookieStore, thisBrowser, browserState, opsStarted>>

\* lines 352-356, throwing a session error instead of returning undefined
WLNoCookies_Throws(c) ==
    /\ call[c].pc = "cookies"
    /\ ~CookieStoreExists
    /\ browserState' = [browserState EXCEPT ![call[c].browser] = "closed"]
    /\ call' = [call EXCEPT ![c].pc = "finally",
                            ![c].pend = Thrown("SessionMissing"),
                            ![c].ev = Log(c, "errorNoCookies") \o <<"close">>]
    /\ UNCHANGED <<cookieStore, thisBrowser, opsStarted>>

\* lines 352-356: no store; console.error, browser.close(), return undefined
WLNoCookies(c) ==
    /\ call[c].pc = "cookies"
    /\ ~CookieStoreExists
    /\ browserState' = [browserState EXCEPT ![call[c].browser] = "closed"]
    /\ call' = [call EXCEPT ![c].pc = "finally",
                            ![c].pend = Returned(Undefined),
                            ![c].ev = Log(c, "errorNoCookies") \o <<"close">>]
    /\ UNCHANGED <<cookieStore, thisBrowser, opsStarted>>

\* line 358: page.goto(url, { waitUntil: 'load' }) resolves or rejects
WLGoto(c) ==
    /\ call[c].pc = "goto"
    /\ \/ call' = [call EXCEPT ![c].pc = "settle", ![c].ev = Log(c, "goto"),
                               ![c].navs = call[c].navs + 1]
       \/ call' = [call EXCEPT ![c].pc = "finally",
                               ![c].pend = Thrown("NavigationError"),
                               ![c].ev = Log(c, "goto"),
                               ![c].navs = call[c].navs + 1]
    /\ UNCHANGED <<cookieStore, thisBrowser, browserState, opsStarted>>

\* line 359: the fixed delay of 5000 ms
WLSettle(c) ==
    /\ call[c].pc = "settle"
    /\ call' = [call EXCEPT ![c].pc = "fn", ![c].ev = Log(c, "settle")]
    /\ UNCHANGED <<cookieStore, thisBrowser, browserState, opsStarted>>

\* lines 361-367 after fn: where a call whose fn ended with r goes next
AfterFn(c, r) ==
    IF r.kind = "return" /\ ~Headless(c) THEN "waitTarget" ELSE "finally"

\* lines 363-365: browser.waitForTarget resolves or rejects
WLWaitTarget(c) ==
    /\ call[c].pc = "waitTarget"
    /\ \/ call' = [call EXCEPT ![c].pc = "finally", ![c].ev = Log(c, "target")]
       \/ call' = [call EXCEPT ![c].pc = "finally",
                               ![c].pend = Thrown("TargetError"),
                               ![c].ev = Log(c, "target")]
    /\ UNCHANGED <<cookieStore, thisBrowser, browserState, opsStarted>>

\* lines 368-371: finally { await browser.close(); this.browser = undefined }
WLFinally(c) ==
    /\ call[c].pc = "finally"
    /\ browserState' = [browserState EXCEPT ![call[c].browser] = "closed"]
    /\ thisBrowser' = 0
    /\ call' = [call EXCEPT ![c].pc = "resume",
                            ![c].wl = call[c].pend,
                            ![c].ev = Log(c, "close")]
    /\ UNCHANGED <<cookieStore, opsStarted>>

-----------------------------------------------------------------------------
(* The callbacks fn that the traversal operations hand to withLinkedin *)

EndFn(c, r, evs) ==
    [call[c] EXCEPT !.pc = AfterFn(c, r), !.pend = r,
                    !.ev = Log(c, "fn") \o evs]

\* findProfile, lines 134-149: the hrefs of the anchors whose text is
\* 'View full profile', those without an href attribute left out
ViewProfileLinks(anchors) ==
    LET withHref == SelectSeq(anchors, LAMBDA a : a.hasHref)
    IN  [i \in 1..Len(withHref) |-> withHref[i].href]

\* lines 145-149 with the test length >= 1
ShortcutResult_First(viewProfileLinks) ==
    IF Len(viewProfileLinks) >= 1 THEN StrV(viewProfileLinks[1]) ELSE NullV

\* lines 145-149
ShortcutResult(viewProfileLinks) ==
    IF Len(viewProfileLinks) = 1 THEN StrV(viewProfileLinks[1]) ELSE NullV

FnShortcut(c) ==
    /\ call[c].pc = "fn" /\ call[c].stage = "shortcut"
    /\ \E anchors \in ViewProfileAnchorLists :
        call' = [call EXCEPT ![c] =
                    [EndFn(c, Returned(ShortcutResult(ViewProfileLinks(anchors))), <<>>)
                        EXCEPT !.links = anchors, !.probed = TRUE]]
    /\ UNCHANGED <<cookieStore, thisBrowser, browserState, opsStarted>>

\* lines 222-235 without the test for the first-degree value of facetNetwork
MarkerResult_AnyDegree(links) ==
    LET hits == SelectSeq(links, LAMBDA h : /\ h # <<>>
                                            /\ Includes(h, FacetNetwork)
                                            /\ Includes(h, FacetConnectionOf))
    IN  IF hits # <<>> THEN StrV(hits[1]) ELSE NullV

\* findMutualConnections, lines 222-235: the first link carrying both markers
MarkerResult(links) ==
    LET facet == SelectSeq(links, LAMBDA h : Includes(h, FacetNetwork))
        hits  == SelectSeq(facet, LAMBDA h : /\ h # <<>>
                                             /\ Includes(h, FacetF)
                                             /\ Includes(h, FacetConnectionOf))
    IN  IF hits # <<>> THEN StrV(hits[1]) ELSE NullV

FnMarker(c) ==
    /\ call[c].pc = "fn" /\ call[c].stage = "marker"
    /\ \E links \in ProfilePageLinkLists :
        call' = [call EXCEPT ![c] =
                    [EndFn(c, Returned(MarkerResult(links)), <<>>)
                        EXCEPT !.links = links]]
    /\ UNCHANGED <<cookieStore, thisBrowser, browserState, opsStarted>>

ExtractStages == {"extract", "fallback", "mutuals"}

\* extractProfilesFromLinkedin, lines 255-316: harvest, then the structured
\* extraction call, whose answer is returned as it is
FnExtract(c) ==
    /\ call[c].pc = "fn" /\ call[c].stage \in ExtractStages
    /\ \E anchors \in PageAnchorLists :
        LET profileUrls == HarvestCandidates(anchors)
        IN  \E profiles \in SeqsUpTo(ResponseProfiles(profileUrls), MaxResponse) :
                call' = [call EXCEPT ![c] =
                    [EndFn(c, Returned(ProfilesV(profiles)), <<"reconcile">>)
                        EXCEPT !.cand = profileUrls, !.resp = profiles,
                               !.recons = call[c].recons + 1]]
    /\ UNCHANGED <<cookieStore, thisBrowser, browserState, opsStarted>>

\* lines 306-313 with src/src/google.ts 85-88: generateStructuredData throws
FnExtractFails(c) ==
    /\ call[c].pc = "fn" /\ call[c].stage \in ExtractStages
    /\ \E anchors \in PageAnchorLists :
        call' = [call EXCEPT ![c] =
            [EndFn(c, Thrown("ReconciliationFailure"), <<"reconcile">>)
                EXCEPT !.cand = HarvestCandidates(anchors), !.resp = <<>>,
                       !.recons = call[c].recons + 1]]
    /\ UNCHANGED <<cookieStore, thisBrowser, browserState, opsStarted>>

\* lines 179-186 with the timeout of waitForSelector left uncaught
FnDraftNoButton_Throws(c) ==
    /\ call[c].pc = "fn" /\ call[c].stage = "draft"
    /\ call' = [call EXCEPT ![c] =
                    EndFn(c, Thrown("MessageControlNotFound"), <<"errorNoButton">>)]
    /\ UNCHANGED <<cookieStore, thisBrowser, browserState, opsStarted>>

\* draftMessage, lines 179-186: waitForSelector times out, fn returns false
FnDraftNoButton(c) ==
    /\ call[c].pc = "fn" /\ call[c].stage = "draft"
    /\ call' = [call EXCEPT ![c] =
                    EndFn(c, Returned(BoolV(FALSE)), <<"errorNoButton">>)]
    /\ UNCHANGED <<cookieStore, thisBrowser, browserState, opsStarted>>

\* lines 190-197 with the first control clicked however many there are
DraftSteps_First(n) ==
    IF n >= 1 THEN <<"click1", "delay", "type">> ELSE <<>>

\* draftMessage, lines 188-202: n controls are found by page.$$
DraftSteps(n) ==
    IF n >= 2 THEN <<"click2", "delay", "type">>
    ELSE IF n = 1 THEN <<"click1", "delay", "type">>
    ELSE <<>>

\* lines 188-202: page.$$ finds n controls; with none the callback throws;
\* otherwise the click, the delay and the typing follow, and the callback
\* returns true unless the click (nothing done) or the typing (click and
\* delay done) rejects
FnDraft(c) ==
    /\ call[c].pc = "fn" /\ call[c].stage = "draft"
    /\ \E n \in 0..MaxButtons, done \in {0, 2, 3} :
        /\ n = 0 => done = 0
        /\ call' = [call EXCEPT ![c] =
            [EndFn(c, IF n = 0 THEN Thrown("No message button found")
                      ELSE IF done = 3 THEN Returned(BoolV(TRUE))
                      ELSE Thrown("PageCallError"),
                   SubSeq(DraftSteps(n), 1, done))
                EXCEPT !.buttons = n]]
    /\ UNCHANGED <<cookieStore, thisBrowser, browserState, opsStarted>>

\* a page call awaited inside fn rejects (evaluate, screenshot, click, type)
FnThrows(c) ==
    /\ call[c].pc = "fn"
    /\ call' = [call EXCEPT ![c] = EndFn(c, Thrown("PageCallError"), <<>>)]
    /\ UNCHANGED <<cookieStore, thisBrowser, browserState, opsStarted>>

-----------------------------------------------------------------------------
(* The traversal operations, lines 105-247 *)

\* line 110
NetworkParam(degree) == IF degree = "first" THEN "F" ELSE "S"

\* line 129
Query(personName, companyName) ==
    IF companyName # <<>> THEN companyName \o Space \o personName ELSE personName

NewCall(op, personName, companyName, degree, target, stage, url) ==
    [IdleCall EXCEPT !.op = op, !.personName = personName,
                     !.companyName = companyName, !.degree = degree,
                     !.target = target, !.stage = stage, !.url = url,
                     !.pc = "acquire"]

CallFindConnectionsAtCompany(c) ==
    /\ call[c].pc = "idle" /\ opsStarted < MaxOps
    /\ \E companyName \in CompanyNames, degree \in Degrees :
        call' = [call EXCEPT ![c] =
                    NewCall("findConnectionsAtCompany", <<>>, companyName, degree, <<>>,
                            "extract", SearchUrl(companyName, NetworkParam(degree)))]
    /\ opsStarted' = opsStarted + 1
    /\ UNCHANGED <<cookieStore, thisBrowser, browserState>>

CallFindProfile(c) ==
    /\ call[c].pc = "idle" /\ opsStarted < MaxOps
    /\ \E personName \in PersonNames, companyName \in CompanyNames \cup {<<>>} :
        call' = [call EXCEPT ![c] =
                    NewCall("findProfile", personName, companyName, "", <<>>,
                            "shortcut", SearchUrl(Query(personName, companyName), ""))]
    /\ opsStarted' = opsStarted + 1
    /\ UNCHANGED <<cookieStore, thisBrowser, browserState>>

CallFindMutualConnections(c) ==
    /\ call[c].pc = "idle" /\ opsStarted < MaxOps
    /\ \E personName \in PersonNames, companyName \in CompanyNames \cup {<<>>} :
        call' = [call EXCEPT ![c] =
                    NewCall("findMutualConnections", personName, companyName, "", <<>>,
                            "shortcut", SearchUrl(Query(personName, companyName), ""))]
    /\ opsStarted' = opsStarted + 1
    /\ UNCHANGED <<cookieStore, thisBrowser, browserState>>

CallDraftMessage(c) ==
    /\ call[c].pc = "idle" /\ opsStarted < MaxOps
    /\ \E profileUrl \in {ProfileJo} :
        call' = [call EXCEPT ![c] =
                    NewCall("draftMessage", <<>>, <<>>, "", profileUrl,
                            "draft", HrefUrl(profileUrl))]
    /\ opsStarted' = opsStarted + 1
    /\ UNCHANGED <<cookieStore, thisBrowser, browserState>>

\* the operation ends: its promise settles with r
Settle(c, r) == [call[c] EXCEPT !.pc = "done", !.outcome = r]

\* an operation that answers an error of withLinkedin by running the same
\* session once more
ResumeThrow_Retries(c) ==
    /\ call[c].pc = "resume" /\ call[c].wl.kind = "throw"
    /\ call' = [call EXCEPT ![c] = EnterWithLinkedin(c, call[c].stage, call[c].url)]
    /\ UNCHANGED <<cookieStore, thisBrowser, browserState, opsStarted>>

\* no operation catches: an error leaving withLinkedin leaves the operation
ResumeThrow(c) ==
    /\ call[c].pc = "resume" /\ call[c].wl.kind = "throw"
    /\ call' = [call EXCEPT ![c] = Settle(c, call[c].wl)]
    /\ UNCHANGED <<cookieStore, thisBrowser, browserState, opsStarted>>

\* (await this.withLinkedin(...)) || []
OrEmpty(v) == IF Truthy(v) THEN v.ps ELSE <<>>

\* lines 118-120 without the two toLowerCase calls
CompanyMatches_CaseSensitive(profile, companyName) ==
    Includes(profile.company, companyName)

\* lines 118-120
CompanyMatches(profile, companyName) ==
    Includes(ToLowerCase(profile.company), ToLowerCase(companyName))

\* lines 157-159 without the two toLowerCase calls
NameMatches_CaseSensitive(profile, personName) ==
    Includes(profile.name, personName)

\* lines 157-159
NameMatches(profile, personName) ==
    Includes(ToLowerCase(profile.name), ToLowerCase(personName))

ResumeConnections(c) ==
    /\ call[c].pc = "resume" /\ call[c].wl.kind = "return"
    /\ call[c].stage = "extract"
    /\ call' = [call EXCEPT ![c] =
        Settle(c, Returned(ProfilesV(
            SelectSeq(OrEmpty(call[c].wl.val),
                      LAMBDA p : CompanyMatches(p, call[c].companyName)))))]
    /\ UNCHANGED <<cookieStore, thisBrowser, browserState, opsStarted>>

\* findProfile returns p: to the caller, or to findMutualConnections, which
\* goes on at line 219 with withLinkedin(person.profileUrl, ...)
FindProfileReturns(c, p) ==
    IF call[c].op = "findProfile"
    THEN [Settle(c, Returned(ProfileV(p))) EXCEPT !.person = p]
    ELSE [EnterWithLinkedin(c, "marker", HrefUrl(p.profileUrl))
            EXCEPT !.person = p, !.links = <<>>, !.cand = <<>>, !.resp = <<>>]

\* lines 152-156
ShortcutApplies(v) == Truthy(v) /\ v.t = "string"

ResumeShortcut(c) ==
    /\ call[c].pc = "resume" /\ call[c].wl.kind = "return"
    /\ call[c].stage = "shortcut"
    /\ call' = [call EXCEPT ![c] =
        IF ShortcutApplies(call[c].wl.val)
        THEN [FindProfileReturns(c, Profile(call[c].personName, <<>>, <<>>,
                                            call[c].wl.val.s))
                EXCEPT !.shortcut = TRUE]
        ELSE EnterWithLinkedin(c, "fallback", call[c].url)]
    /\ UNCHANGED <<cookieStore, thisBrowser, browserState, opsStarted>>

\* lines 156-164
ResumeFallback(c) ==
    /\ call[c].pc = "resume" /\ call[c].wl.kind = "return"
    /\ call[c].stage = "fallback"
    /\ LET nameMatching == SelectSeq(OrEmpty(call[c].wl.val),
                                     LAMBDA p : NameMatches(p, call[c].personName))
       IN  call' = [call EXCEPT ![c] =
                IF nameMatching # <<>>
                THEN FindProfileReturns(c, nameMatching[1])
                ELSE Settle(c, Thrown("No profile found"))]
    /\ UNCHANGED <<cookieStore, thisBrowser, browserState, opsStarted>>

\* lines 238-246
ResumeMarker(c) ==
    /\ call[c].pc = "resume" /\ call[c].wl.kind = "return"
    /\ call[c].stage = "marker"
    /\ call' = [call EXCEPT ![c] =
        IF Truthy(call[c].wl.val) /\ call[c].wl.val.t = "string"
        THEN EnterWithLinkedin(c, "mutuals", HrefUrl(call[c].wl.val.s))
        ELSE Settle(c, Returned(ProfilesV(<<>>)))]
    /\ UNCHANGED <<cookieStore, thisBrowser, browserState, opsStarted>>

\* lines 239-243
ResumeMutuals(c) ==
    /\ call[c].pc = "resume" /\ call[c].wl.kind = "return"
    /\ call[c].stage = "mutuals"
    /\ call' = [call EXCEPT ![c] =
                    Settle(c, Returned(ProfilesV(OrEmpty(call[c].wl.val))))]
    /\ UNCHANGED <<cookieStore, thisBrowser, browserState, opsStarted>>

\* lines 173-206: (await this.withLinkedin(...)) || false
ResumeDraft(c) ==
    /\ call[c].pc = "resume" /\ call[c].wl.kind = "return"
    /\ call[c].stage = "draft"
    /\ call' = [call EXCEPT ![c] =
                    Settle(c, Returned(BoolV(Truthy(call[c].wl.val))))]
    /\ UNCHANGED <<cookieStore, thisBrowser, browserState, opsStarted>>

\* the caller takes the settled result
Finish(c) ==
    /\ call[c].pc = "done"
    /\ call' = [call EXCEPT ![c] = IdleCall]
    /\ browserState' =
            [b \in BrowserIds |->
                IF /\ browserState[b] = "closed"
                   /\ thisBrowser # b
                   /\ \A d \in Callers \ {c} : call[d].browser # b
                THEN "unlaunched" ELSE browserState[b]]
    /\ UNCHANGED <<cookieStore, thisBrowser, opsStarted>>

-----------------------------------------------------------------------------
(* login, lines 41-98 *)

MaxTicks == 3
MaxInFlight == 2
MaxJarChanges == 2

\* the cookies the browser may hold
CookiePool == {"li_at", "JSESSIONID"}
\* what a cookie-store file that can be read holds before login
InitialStore(store) == IF store = "valid" THEN {"li_at"} ELSE {}

\* 'Navigating frame was detached', line 94
DetachedText ==
    <<"N","a","v","i","g","a","t","i","n","g"," ","f","r","a","m","e"," ",
      "w","a","s"," ","d","e","t","a","c","h","e","d">>

\* what may be thrown: the cause, and the message if the value has one
Err(cause, hasMessage, message) ==
    [cause |-> cause, hasMessage |-> hasMessage, message |-> message]
\* the navigation race: the frame navigated was detached
DetachedErrors ==
    { Err("detachedFrame", TRUE, DetachedText),
      Err("detachedFrame", TRUE, <<"E","r","r",":"," ">> \o DetachedText \o <<".">>) }
\* any other failure: with a message, or a thrown value that has none
OtherErrors ==
    { Err("other", TRUE, <<"n","e","t",":",":","E","R","R">>),
      Err("other", FALSE, <<>>) }
\* what page.goto, page.waitForFunction and browser.close may reject with
NavErrors == DetachedErrors \cup OtherErrors

\* line 81: the period of the capture timer, in seconds
CapturePeriod == 5
\* line 89: the delay between the landing page and clearInterval, in seconds
LandingDelay == 3

\* sinceTick is the time since the timer was set or last fired, delayed the
\* time since the landing page was seen, both in whole seconds; writeAt holds
\* the positions of login at which the store was written
LoginIdle ==
    [pc |-> "idle", browser |-> "none", jar |-> {}, jarChanges |-> 0,
     timer |-> "unset", fired |-> 0, sinceTick |-> 0, delayed |-> 0, writeAt |-> {},
     ticks |-> [t \in 1..MaxInFlight |-> [st |-> "free", obs |-> {}]],
     proc |-> "running", raised |-> {}, reports |-> {},
     writes |-> 0, prev |-> {}, last |-> {}]

\* an error has been raised at a place of login
Raise(l, at, error) ==
    [l EXCEPT !.raised = l.raised \cup {[at |-> at, error |-> error]}]
\* an error has been made known through a channel
Report(l, channel, at, error) ==
    [l EXCEPT !.reports =
        l.reports \cup {[channel |-> channel, at |-> at, error |-> error]}]

\* line 94 with the test left out: nothing is reported
LoginReports_Never(error) == FALSE

\* line 94: !error?.message?.includes('Navigating frame was detached')
LoginReports(error) ==
    ~(error.hasMessage /\ Includes(error.message, DetachedText))

\* lines 93-97: the catch block, after which login returns
LoginCatch(l, at, error) ==
    LET r == Raise(l, at, error)
    IN  [(IF LoginReports(error) THEN Report(r, "consoleError", at, error) ELSE r)
            EXCEPT !.pc = "returned"]

\* what login leaves alone: the traversal calls and the harvester
lframe == <<thisBrowser, browserState, call, opsStarted, hvars, uvars, wvars, xvars>>

\* lines 41-49: without a cookie store the operator is asked to press Enter
CallLogin ==
    /\ login.pc = "idle"
    /\ login' = [login EXCEPT !.pc = IF CookieStoreExists THEN "launch" ELSE "prompt"]
    /\ UNCHANGED <<cookieStore, storedCookies, lframe>>

\* line 48: the operator presses Enter
LoginEnterPressed ==
    /\ login.pc = "prompt" /\ login.proc = "running"
    /\ login' = [login EXCEPT !.pc = "launch"]
    /\ UNCHANGED <<cookieStore, storedCookies, lframe>>

\* lines 52-56, outside the try block: a rejection leaves login as it is
LoginLaunch ==
    /\ login.pc = "launch" /\ login.proc = "running"
    /\ \/ login' = [login EXCEPT !.pc = "newPage", !.browser = "open"]
       \/ \E e \in OtherErrors :
            login' = [Report(Raise(login, "launch", e), "rejection", "launch", e)
                        EXCEPT !.pc = "rejected"]
    /\ UNCHANGED <<cookieStore, storedCookies, lframe>>

\* line 58, outside the try block
LoginNewPage ==
    /\ login.pc = "newPage" /\ login.proc = "running"
    /\ \/ login' = [login EXCEPT !.pc = "load"]
       \/ \E e \in OtherErrors :
            login' = [Report(Raise(login, "newPage", e), "rejection", "newPage", e)
                        EXCEPT !.pc = "rejected"]
    /\ UNCHANGED <<cookieStore, storedCookies, lframe>>

\* lines 62-71: the store, if there is one, is read, parsed and applied; an
\* error of any of the three is caught and logged with console.warn
LoginLoadCookies ==
    /\ login.pc = "load" /\ login.proc = "running"
    /\ \/ /\ ~CookieStoreExists
          /\ login' = [login EXCEPT !.pc = "goto"]
       \/ /\ cookieStore = "valid"
          /\ login' = [login EXCEPT !.pc = "goto",
                                    !.jar = login.jar \cup storedCookies]
       \/ /\ CookieStoreExists
          /\ \E e \in OtherErrors :
                login' = [Report(Raise(login, "load", e), "consoleWarn", "load", e)
                            EXCEPT !.pc = "goto"]
    /\ UNCHANGED <<cookieStore, storedCookies, lframe>>

\* lines 73-81: page.goto; once it resolves the capture timer is set
LoginGoto ==
    /\ login.pc = "goto" /\ login.proc = "running"
    /\ \/ login' = [login EXCEPT !.pc = "waitFeed", !.timer = "running"]
       \/ \E e \in NavErrors : login' = LoginCatch(login, "goto", e)
    /\ UNCHANGED <<cookieStore, storedCookies, lframe>>

\* the site and the operator signing in change the cookies of the browser
JarChanges ==
    /\ login.browser = "open" /\ login.proc = "running"
    /\ login.pc \in {"goto", "waitFeed", "delay", "close", "returned"}
    /\ login.jarChanges < MaxJarChanges
    /\ \E jar \in (SUBSET CookiePool) \ {login.jar} :
        login' = [login EXCEPT !.jar = jar, !.jarChanges = login.jarChanges + 1]
    /\ UNCHANGED <<cookieStore, storedCookies, lframe>>

\* lines 83-87: page.waitForFunction, no timeout
LoginFeed ==
    /\ login.pc = "waitFeed" /\ login.proc = "running"
    /\ \/ login' = [login EXCEPT !.pc = "delay"]
       \/ \E e \in NavErrors : login' = LoginCatch(login, "waitFeed", e)
    /\ UNCHANGED <<cookieStore, storedCookies, lframe>>

\* a second passes while the timer is set: the timer fires when its period
\* has passed, and the delay of line 89 ends when its 3000 ms have passed
SecondPasses ==
    /\ login.timer = "running" /\ login.proc = "running"
    /\ login.sinceTick < CapturePeriod
    /\ login.pc = "delay" => login.delayed < LandingDelay
    /\ login' = [login EXCEPT !.sinceTick = @ + 1,
                              !.delayed = IF login.pc = "delay" THEN @ + 1 ELSE @]
    /\ UNCHANGED <<cookieStore, storedCookies, lframe>>

\* lines 89-90: the delay of 3000 ms, then clearInterval
LoginDelay ==
    /\ login.pc = "delay" /\ login.proc = "running"
    /\ login.delayed = LandingDelay
    /\ login' = [login EXCEPT !.pc = "close", !.timer = "cleared",
                              !.sinceTick = 0, !.delayed = 0]
    /\ UNCHANGED <<cookieStore, storedCookies, lframe>>

\* lines 91-92: browser.close(), then process.exit(0)
LoginClose ==
    /\ login.pc = "close" /\ login.proc = "running"
    /\ \/ login' = [login EXCEPT !.pc = "exited", !.browser = "closed",
                                 !.proc = "exited"]
       \/ \E e \in NavErrors : login' = LoginCatch(login, "close", e)
    /\ UNCHANGED <<cookieStore, storedCookies, lframe>>

\* the capture the tick writes, merged with what the store held
TickStore_Merged(observed, stored) == observed \cup stored

\* line 79: JSON.stringify(cookies) replaces the content of the file
TickStore(observed, stored) == observed

\* lines 76-77: the interval fires and the callback calls page.cookies()
TickFire ==
    /\ login.timer = "running" /\ login.proc = "running"
    /\ login.sinceTick = CapturePeriod
    /\ login.fired < MaxTicks
    /\ \E t \in 1..MaxInFlight :
        /\ login.ticks[t].st = "free"
        /\ \A u \in 1..(t - 1) : login.ticks[u].st # "free"
        /\ login' = [login EXCEPT !.ticks[t].st = "asked",
                                  !.fired = login.fired + 1,
                                  !.sinceTick = 0]
    /\ UNCHANGED <<cookieStore, storedCookies, lframe>>

\* line 77: the browser answers with the cookies it holds
TickAnswer ==
    /\ login.proc = "running" /\ login.browser = "open"
    /\ \E t \in 1..MaxInFlight :
        /\ login.ticks[t].st = "asked"
        /\ login' = [login EXCEPT !.ticks[t] = [st |-> "answered", obs |-> login.jar]]
    /\ UNCHANGED <<cookieStore, storedCookies, lframe>>

\* line 77: page.cookies() rejects; the callback's promise has no handler,
\* so the runtime reports an unhandled rejection, and may end the process
TickRejects ==
    /\ login.proc = "running"
    /\ \E t \in 1..MaxInFlight, e \in OtherErrors, proc \in {"running", "exited"} :
        /\ login.ticks[t].st = "asked"
        /\ login' = [Report(Raise(login, "tick", e), "unhandledRejection", "tick", e)
                        EXCEPT !.ticks[t] = [st |-> "free", obs |-> {}],
                               !.proc = proc]
    /\ UNCHANGED <<cookieStore, storedCookies, lframe>>

\* lines 78-80: a non-empty capture is written to the store
TickWrite ==
    /\ login.proc = "running"
    /\ \E t \in 1..MaxInFlight :
        /\ login.ticks[t].st = "answered"
        /\ LET cookies == login.ticks[t].obs
           IN  IF cookies # {}
               THEN /\ cookieStore' = "valid"
                    /\ storedCookies' = TickStore(cookies, storedCookies)
                    /\ login' = [login EXCEPT !.ticks[t] = [st |-> "free", obs |-> {}],
                                              !.writes = 1,
                                              !.writeAt = @ \cup {login.pc},
                                              !.prev = storedCookies,
                                              !.last = cookies]
               ELSE /\ login' = [login EXCEPT !.ticks[t] = [st |-> "free", obs |-> {}]]
                    /\ UNCHANGED <<cookieStore, storedCookies>>
    /\ UNCHANGED lframe

-----------------------------------------------------------------------------
(* writeMarkdown, src/src/write.ts lines 46-84 *)

\* A path is the sequence of its segments below process.cwd(); a segment and
\* a file name are strings.

\* 'sdr_notes', line 54
NotesDirName == <<"s","d","r","_","n","o","t","e","s">>
\* path.join(cwd, 'sdr_notes')
NotesDir == <<NotesDirName>>
\* '.md', line 72
MdExtension == <<".","m","d">>
\* `notes-${new Date().toISOString().replace(/[:.]/g, '-')}`, line 69, for
\* some instant
DefaultFilename == <<"n","o","t","e","s","-","2","0","2","5","-","0","1","Z">>

\* String.prototype.endsWith
EndsWith(s, suffix) ==
    /\ Len(suffix) <= Len(s)
    /\ SubSeq(s, Len(s) - Len(suffix) + 1, Len(s)) = suffix

\* lines 69-72
FullFilename(optFilename) ==
    LET filename == IF optFilename # <<>> THEN optFilename ELSE DefaultFilename
    IN  IF EndsWith(filename, MdExtension) THEN filename ELSE filename \o MdExtension

\* lines 60-62: options.subdirectory, a relative path, empty when not given
TargetDir(subdirectory) ==
    IF subdirectory # <<>> THEN NotesDir \o subdirectory ELSE NotesDir

\* fs.mkdirSync(dir, { recursive: true }): dir and every missing ancestor
MkdirRecursive(dirs, dir) == dirs \cup {SubSeq(dir, 1, k) : k \in 1..Len(dir)}

\* the test before a mkdirSync taken to succeed whatever exists
NeedsMkdir_Always(dirs, dir) == TRUE

\* lines 55 and 63: !fs.existsSync(dir)
NeedsMkdir(dirs, dir) == dir \notin dirs

\* the contents, subdirectories and file names writeMarkdown is called with
Str_co == <<"c","o">>
Str_q1 == <<"q","1">>
Contents == { <<"#">>, <<"#","a">> }
Subdirectories == { <<>>, <<Str_co>>, <<Str_co, Str_q1>> }
Filenames == { <<>>, <<"n">>, <<"n",".","m","d">>, <<"m","d">> }
\* the directories that may exist before the call
InitialDirs ==
    { {}, {NotesDir}, {NotesDir, NotesDir \o <<Str_co>>},
      {NotesDir, NotesDir \o <<Str_co>>, NotesDir \o <<Str_co, Str_q1>>} }

WriteIdle ==
    [pc |-> "idle", content |-> <<>>, subdirectory |-> <<>>, filename |-> <<>>,
     filePath |-> <<>>, dirsBefore |-> {}, mkdirs |-> <<>>, outcome |-> "none"]

\* lines 46-75: the directories are made ready and the file path is formed;
\* nothing is awaited before line 78
WriteMarkdownBegin ==
    /\ wcall.pc = "idle"
    /\ \E content \in Contents, subdirectory \in Subdirectories,
          filename \in Filenames :
        LET notesDir  == NotesDir
            base      == NeedsMkdir(disk.dirs, notesDir)
            dirs1     == IF base THEN MkdirRecursive(disk.dirs, notesDir)
                         ELSE disk.dirs
            targetDir == TargetDir(subdirectory)
            sub       == subdirectory # <<>> /\ NeedsMkdir(dirs1, targetDir)
            dirs2     == IF sub THEN MkdirRecursive(dirs1, targetDir) ELSE dirs1
        IN  /\ disk' = [disk EXCEPT !.dirs = dirs2]
            /\ wcall' = [wcall EXCEPT
                    !.pc = "writing", !.content = content,
                    !.subdirectory = subdirectory, !.filename = filename,
                    !.filePath = Append(targetDir, FullFilename(filename)),
                    !.dirsBefore = disk.dirs,
                    !.mkdirs = (IF base THEN <<notesDir>> ELSE <<>>)
                                \o (IF sub THEN <<targetDir>> ELSE <<>>)]
    /\ UNCHANGED <<svars, hvars, lvars, uvars, xvars>>

\* lines 78-83: fs.promises.writeFile resolves and the result is returned
WriteMarkdownFile ==
    /\ wcall.pc = "writing"
    /\ disk' = [disk EXCEPT !.files =
                    [f \in (DOMAIN disk.files) \cup {wcall.filePath} |->
                        IF f = wcall.filePath THEN wcall.content ELSE disk.files[f]]]
    /\ wcall' = [wcall EXCEPT !.pc = "done", !.outcome = "return"]
    /\ UNCHANGED <<svars, hvars, lvars, uvars, xvars>>

\* line 78: fs.promises.writeFile rejects, and so does writeMarkdown
WriteMarkdownFileFails ==
    /\ wcall.pc = "writing"
    /\ wcall' = [wcall EXCEPT !.pc = "done", !.outcome = "throw"]
    /\ UNCHANGED <<disk, svars, hvars, lvars, uvars, xvars>>

-----------------------------------------------------------------------------
(* Firecrawl.deepResearch: start the job, then poll its status *)

MaxPolls == 3
MaxActivities == 2

\* firecrawl.ts line 28: the job statuses the service can report
Statuses == {"processing", "completed", "failed", "in_progress", "error"}

Str_search == <<"s","e","a","r","c","h">>
Str_extract == <<"e","x","t","r","a","c","t">>

\* String(n) of a template literal, for the depths the service sends here
DepthString(d) ==
    LET digit == <<"1","2","3","4","5","6","7","8","9">>
    IN  IF d = 0 THEN <<"0">>
        ELSE IF d < 0 THEN <<"-", digit[0 - d]>>
        ELSE <<digit[d]>>

\* line 232: `${activity.type}-${activity.message}-${activity.depth}`
ActivityHash(a) == a.type \o <<"-">> \o a.message \o <<"-">> \o DepthString(a.depth)

\* what the claim calls one activity: its type, message and depth
Identity(a) == <<a.type, a.message, a.depth>>

Activity(t, m, d, s) == [type |-> t, message |-> m, depth |-> d, status |-> s]

\* the activities the service may list: one that reappears with another
\* status, and two different ones whose hashes are the same string
ActivityPool ==
    { Activity(Str_search, <<"a">>, 1, "processing"),
      Activity(Str_search, <<"a">>, 1, "completed"),
      Activity(Str_search, <<"a","-">>, 1, "processing"),
      Activity(Str_search, <<"a">>, 0 - 1, "processing"),
      Activity(Str_extract, <<"a">>, 1, "processing") }

ActivityLists == SeqsUpTo(ActivityPool, MaxActivities)

\* statusResponse.data: the activities (listed is FALSE when the field is
\* absent) and the error text
ResearchData ==
    { d \in [listed : BOOLEAN, activities : ActivityLists, error : {"", "quota"}] :
        ~d.listed => d.activities = <<>> }

\* line 234 without the test of the set
Unseen_Always(seen, a) == TRUE

\* line 234: !seenActivityHashes.has(activityHash)
Unseen(seen, a) == ActivityHash(a) \notin seen

\* lines 230-238: the loop over the activities of one response. onActivity
\* throws on the failAt-th activity if it is called for it (0: never); the
\* hash is recorded before the callback runs
RECURSIVE Notify(_, _, _, _, _)
Notify(acts, i, seen, reported, failAt) ==
    IF i > Len(acts) THEN [seen |-> seen, reported |-> reported, threw |-> FALSE]
    ELSE IF ~Unseen(seen, acts[i])
         THEN Notify(acts, i + 1, seen, reported, failAt)
    ELSE IF i = failAt
         THEN [seen |-> seen \cup {ActivityHash(acts[i])},
               reported |-> Append(reported, acts[i]), threw |-> TRUE]
    ELSE Notify(acts, i + 1, seen \cup {ActivityHash(acts[i])},
                Append(reported, acts[i]), failAt)

ResearchIdle ==
    [pc |-> "idle", callback |-> FALSE, seen |-> {}, reported |-> <<>>,
     requests |-> 0, statuses |-> <<>>, relisted |-> FALSE,
     promise |-> "none", by |-> "none", value |-> "none"]

\* line 249: statusResponse.data.error || 'Research failed'
FailureMessage(data) == IF data.error # "" THEN data.error ELSE "Research failed"

\* lines 211-217: deepResearch is called, with or without onActivity, and
\* awaits startDeepResearch
CallDeepResearch ==
    /\ research.pc = "idle"
    /\ \E cb \in BOOLEAN :
        research' = [research EXCEPT !.pc = "starting", !.callback = cb,
                                     !.promise = "pending"]
    /\ UNCHANGED <<svars, hvars, lvars, uvars, wvars, tvars>>

\* lines 217-226 and 261: the job id arrives, the set is created and the first
\* poll issues its status request
ResearchStarted ==
    /\ research.pc = "starting"
    /\ research' = [research EXCEPT !.pc = "requesting", !.requests = 1]
    /\ UNCHANGED <<svars, hvars, lvars, uvars, wvars, tvars>>

\* line 217: startDeepResearch throws, and deepResearch rejects with it
ResearchStartFails ==
    /\ research.pc = "starting"
    /\ research' = [research EXCEPT !.pc = "settled", !.promise = "rejected",
                                    !.by = "start"]
    /\ UNCHANGED <<svars, hvars, lvars, uvars, wvars, tvars>>

\* lines 226-257: a status response arrives and the rest of poll runs.
\* relisted records that a response listed an activity reported before
PollAnswer ==
    /\ research.pc = "requesting"
    /\ \E status \in Statuses, data \in ResearchData, failAt \in 0..MaxActivities :
        LET listed == research.callback /\ data.listed
            n == IF listed
                 THEN Notify(data.activities, 1, research.seen, research.reported, failAt)
                 ELSE [seen |-> research.seen, reported |-> research.reported,
                       threw |-> FALSE]
            again == listed /\ \E i \in 1..Len(data.activities),
                                    j \in 1..Len(research.reported) :
                        Identity(data.activities[i]) = Identity(research.reported[j])
            r == [research EXCEPT !.seen = n.seen, !.reported = n.reported,
                                  !.statuses = Append(@, status),
                                  !.relisted = @ \/ again]
        IN  /\ failAt > 0 => n.threw
            /\ research' =
                IF n.threw
                THEN [r EXCEPT !.pc = "settled", !.promise = "rejected",
                               !.by = "callback"]
                ELSE IF status = "completed"
                THEN [r EXCEPT !.pc = "settled", !.promise = "resolved",
                               !.by = "completed", !.value = data]
                ELSE IF status = "failed"
                THEN [r EXCEPT !.pc = "settled", !.promise = "rejected",
                               !.by = "failed", !.value = FailureMessage(data)]
                ELSE [r EXCEPT !.pc = "scheduled"]
    /\ UNCHANGED <<svars, hvars, lvars, uvars, wvars, tvars>>

\* lines 226 and 255-257: checkDeepResearchStatus throws
PollThrows ==
    /\ research.pc = "requesting"
    /\ research' = [research EXCEPT !.pc = "settled", !.promise = "rejected",
                                    !.by = "request",
                                    !.statuses = Append(@, "threw")]
    /\ UNCHANGED <<svars, hvars, lvars, uvars, wvars, tvars>>

\* line 254: the timer set by setTimeout(poll, pollingInterval) fires, and
\* poll issues the next status request
PollTimer ==
    /\ research.pc = "scheduled"
    /\ research.requests < MaxPolls
    /\ research' = [research EXCEPT !.pc = "requesting", !.requests = @ + 1]
    /\ UNCHANGED <<svars, hvars, lvars, uvars, wvars, tvars>>

-----------------------------------------------------------------------------
(* getToolsLazy and its callers *)

\* the timer of server start-up and the handlers of two requests to
\* /api/validate_workflow
ToolCallers == {"timer", "request1", "request2"}

\* a caller: where it is, the startClientAndGetTools promise it awaits and
\* the tools object it received (0: none). Tools objects are numbered by the
\* invocation of startClientAndGetTools that made them
ToolsIdle ==
    [at |-> [k \in ToolCallers |-> "idle"],
     awaits |-> [k \in ToolCallers |-> 0],
     got |-> [k \in ToolCallers |-> 0],
     starts |-> 0]

\* app.ts lines 63-65: a request without a body is answered with status 400
RequestWithoutWorkflow(k) ==
    /\ k # "timer" /\ getting.at[k] = "idle"
    /\ getting' = [getting EXCEPT !.at[k] = "answered400"]
    /\ UNCHANGED <<tools, svars, hvars, lvars, uvars, wvars, rvars>>

\* part_005 lines 7-10: getToolsLazy is entered, by the timer callback or by
\* a request handler; tools is returned if set, else startClientAndGetTools
\* is invoked and awaited
GetToolsLazy(k) ==
    /\ getting.at[k] = "idle"
    /\ IF tools # 0
       THEN getting' = [getting EXCEPT !.at[k] = "returned", !.got[k] = tools]
       ELSE getting' = [getting EXCEPT !.at[k] = "awaiting",
                                       !.awaits[k] = getting.starts + 1,
                                       !.starts = getting.starts + 1]
    /\ UNCHANGED <<tools, svars, hvars, lvars, uvars, wvars, rvars>>

\* part_005 lines 10-12: the clients have started; tools = newTools; return
ClientStarted(k) ==
    /\ getting.at[k] = "awaiting"
    /\ tools' = getting.awaits[k]
    /\ getting' = [getting EXCEPT !.at[k] = "returned", !.got[k] = getting.awaits[k],
                                  !.awaits[k] = 0]
    /\ UNCHANGED <<svars, hvars, lvars, uvars, wvars, rvars>>

\* part_005 line 10: startClientAndGetTools rejects, and so does getToolsLazy
ClientStartFails(k) ==
    /\ getting.at[k] = "awaiting"
    /\ getting' = [getting EXCEPT !.at[k] = "threw", !.awaits[k] = 0]
    /\ UNCHANGED <<tools, svars, hvars, lvars, uvars, wvars, rvars>>

-----------------------------------------------------------------------------
(* SDR.draftMessage, src/src/sdr.ts lines 247-253 *)

Str_OpenedDraft ==
    <<"O","p","e","n","e","d"," ","d","r","a","f","t"," ",
      "m","e","s","s","a","g","e"," ","t","o"," ">>

\* line 250: `Opened draft message to ${name}: "${message}"`
OpenedDraftText(name, message) ==
    Str_OpenedDraft \o name \o <<":", " ", "\"">> \o message \o <<"\"">>

\* lines 248-252: the value of LinkedIn.draftMessage is awaited and dropped;
\* a throw of it passes through, any return gives the same result
SDRDraftMessage(r, name, message) ==
    IF r.kind = "throw" THEN [kind |-> "throw", text |-> <<>>, err |-> r.err]
    ELSE [kind |-> "return", text |-> OpenedDraftText(name, message), err |-> ""]

-----------------------------------------------------------------------------
(* Specifications *)

SInit ==
    /\ cookieStore \in {"absent", "valid", "corrupt"}
    /\ thisBrowser = 0
    /\ browserState = [b \in BrowserIds |-> "unlaunched"]
    /\ call = [c \in Callers |-> IdleCall]
    /\ opsStarted = 0

HIdle ==
    /\ hAnchors = <<>>
    /\ hDomLinks = <<>>
    /\ hCleaned = <<>>
    /\ hCandidates = <<>>
    /\ hDone = FALSE

\* no login is made while the traversal operations are examined
LIdle ==
    /\ storedCookies = InitialStore(cookieStore)
    /\ login = LoginIdle

\* writeMarkdown is not being examined
WIdle ==
    /\ disk = [dirs |-> {}, files |-> << >>]
    /\ wcall = WriteIdle

\* deepResearch is not being examined
RIdle == research = ResearchIdle

\* getToolsLazy is not being examined
TIdle ==
    /\ tools = 0
    /\ getting = ToolsIdle

XIdle == RIdle /\ TIdle

\* cleanUrlQueryParams is not being examined
UIdle == clean = [input |-> <<>>, once |-> <<>>, twice |-> <<>>, applied |-> 0]

Init == SInit /\ HIdle /\ LIdle /\ UIdle /\ WIdle /\ XIdle

Next ==
    \E c \in Serial :
        \/ CallFindConnectionsAtCompany(c) /\ UNCHANGED <<hvars, lvars, uvars, wvars, xvars>>
        \/ CallFindProfile(c) /\ UNCHANGED <<hvars, lvars, uvars, wvars, xvars>>
        \/ CallFindMutualConnections(c) /\ UNCHANGED <<hvars, lvars, uvars, wvars, xvars>>
        \/ CallDraftMessage(c) /\ UNCHANGED <<hvars, lvars, uvars, wvars, xvars>>
        \/ WLReuse(c) /\ UNCHANGED <<hvars, lvars, uvars, wvars, xvars>>
        \/ WLLaunchBegin(c) /\ UNCHANGED <<hvars, lvars, uvars, wvars, xvars>>
        \/ WLLaunched(c) /\ UNCHANGED <<hvars, lvars, uvars, wvars, xvars>>
        \/ WLLaunchFails(c) /\ UNCHANGED <<hvars, lvars, uvars, wvars, xvars>>
        \/ WLPage(c) /\ UNCHANGED <<hvars, lvars, uvars, wvars, xvars>>
        \/ WLPageFails(c) /\ UNCHANGED <<hvars, lvars, uvars, wvars, xvars>>
        \/ WLLoadCookies(c) /\ UNCHANGED <<hvars, lvars, uvars, wvars, xvars>>
        \/ WLNoCookies(c) /\ UNCHANGED <<hvars, lvars, uvars, wvars, xvars>>
        \/ WLGoto(c) /\ UNCHANGED <<hvars, lvars, uvars, wvars, xvars>>
        \/ WLSettle(c) /\ UNCHANGED <<hvars, lvars, uvars, wvars, xvars>>
        \/ FnShortcut(c) /\ UNCHANGED <<hvars, lvars, uvars, wvars, xvars>>
        \/ FnMarker(c) /\ UNCHANGED <<hvars, lvars, uvars, wvars, xvars>>
        \/ FnExtract(c) /\ UNCHANGED <<hvars, lvars, uvars, wvars, xvars>>
        \/ FnExtractFails(c) /\ UNCHANGED <<hvars, lvars, uvars, wvars, xvars>>
        \/ FnDraftNoButton(c) /\ UNCHANGED <<hvars, lvars, uvars, wvars, xvars>>
        \/ FnDraft(c) /\ UNCHANGED <<hvars, lvars, uvars, wvars, xvars>>
        \/ FnThrows(c) /\ UNCHANGED <<hvars, lvars, uvars, wvars, xvars>>
        \/ WLWaitTarget(c) /\ UNCHANGED <<hvars, lvars, uvars, wvars, xvars>>
        \/ WLFinally(c) /\ UNCHANGED <<hvars, lvars, uvars, wvars, xvars>>
        \/ ResumeThrow(c) /\ UNCHANGED <<hvars, lvars, uvars, wvars, xvars>>
        \/ ResumeConnections(c) /\ UNCHANGED <<hvars, lvars, uvars, wvars, xvars>>
        \/ ResumeShortcut(c) /\ UNCHANGED <<hvars, lvars, uvars, wvars, xvars>>
        \/ ResumeFallback(c) /\ UNCHANGED <<hvars, lvars, uvars, wvars, xvars>>
        \/ ResumeMarker(c) /\ UNCHANGED <<hvars, lvars, uvars, wvars, xvars>>
        \/ ResumeMutuals(c) /\ UNCHANGED <<hvars, lvars, uvars, wvars, xvars>>
        \/ ResumeDraft(c) /\ UNCHANGED <<hvars, lvars, uvars, wvars, xvars>>
        \/ Finish(c) /\ UNCHANGED <<hvars, lvars, uvars, wvars, xvars>>

Spec == Init /\ [][Next]_vars

\* the harvester alone, on every bounded list of anchors
HStart ==
    /\ hAnchors \in SeqsUpTo(HrefPool, MaxAnchors)
    /\ hDomLinks = <<>>
    /\ hCleaned = <<>>
    /\ hCandidates = <<>>
    /\ hDone = FALSE

Harvest ==
    /\ ~hDone
    /\ hDomLinks' = DomProfileLinks(hAnchors)
    /\ hCleaned' = CleanAll(DomProfileLinks(hAnchors))
    /\ hCandidates' = HarvestCandidates(hAnchors)
    /\ hDone' = TRUE
    /\ UNCHANGED hAnchors

HNext == Harvest /\ UNCHANGED <<svars, lvars, uvars, wvars, xvars>>

\* no traversal call is made while the harvester is examined
SQuiet ==
    /\ cookieStore = "valid"
    /\ thisBrowser = 0
    /\ browserState = [b \in BrowserIds |-> "unlaunched"]
    /\ call = [c \in Callers |-> IdleCall]
    /\ opsStarted = 0

HInit == SQuiet /\ HStart /\ LIdle /\ UIdle /\ WIdle /\ XIdle

SpecHarvest == HInit /\ [][HNext]_vars

\* login alone, from every state of the cookie store
LInit ==
    /\ SInit /\ HIdle /\ UIdle /\ WIdle /\ XIdle
    /\ storedCookies = InitialStore(cookieStore)
    /\ login = LoginIdle

LNext ==
    \/ CallLogin
    \/ LoginEnterPressed
    \/ LoginLaunch
    \/ LoginNewPage
    \/ LoginLoadCookies
    \/ LoginGoto
    \/ JarChanges
    \/ LoginFeed
    \/ SecondPasses
    \/ LoginDelay
    \/ LoginClose
    \/ TickFire
    \/ TickAnswer
    \/ TickRejects
    \/ TickWrite

SpecLogin == LInit /\ [][LNext]_vars

\* the strings cleanUrlQueryParams is examined on: http(s) URLs, URLs of
\* schemes that are not special, strings that are no URL, each with and
\* without a query and a fragment, and the empty string
UrlSuffixes ==
    { <<>>, QueryA, <<"#","f">>, <<"?","q","#","f">> }
HttpPrefixes ==
    { Https \o <<":","/","/">>, <<"H","T","T","P",":","/","/">> }
HttpRests ==
    { <<"a",".","c","o">>, <<"A",".","c","o","/","i","n","/","b">>,
      <<"a",".","c","o","/","x",":","y">>,
      <<"w","w","w",".","l","i","n","k","e","d","i","n",".","c","o","m">>
            \o InSegment \o Str_bob }
OpaquePrefixes ==
    { <<"u","r","n",":">>, <<"U","r","n",":">>, <<"m","a","i","l","t","o",":">> }
OpaqueRests ==
    { <<"i","s","b","n",":","1">>, <<"a","@","b",".","c","o">>, <<"x">> }
NoUrlRests ==
    { <<"a",".","c","o","/","i","n","/","b">>, <<"/","i","n","/","b">>,
      Str_jo, <<"1","a",":","x">> }
UrlInputs ==
    {<<>>}
    \cup { p \o r \o x : p \in HttpPrefixes, r \in HttpRests, x \in UrlSuffixes }
    \cup { p \o r \o x : p \in OpaquePrefixes, r \in OpaqueRests, x \in UrlSuffixes }
    \cup { r \o x : r \in NoUrlRests, x \in UrlSuffixes }

\* cleanUrlQueryParams alone, on every string of the pool
UStart == clean \in [input : UrlInputs, once : {<<>>}, twice : {<<>>}, applied : {0}]

UInit == SQuiet /\ HIdle /\ LIdle /\ UStart /\ WIdle /\ XIdle

\* cleanUrlQueryParams(u)
CleanOnce ==
    /\ clean.applied = 0
    /\ clean' = [clean EXCEPT !.once = cleanUrlQueryParams(clean.input),
                              !.applied = 1]
    /\ UNCHANGED <<svars, hvars, lvars, wvars, xvars>>

\* cleanUrlQueryParams(cleanUrlQueryParams(u))
CleanAgain ==
    /\ clean.applied = 1
    /\ clean' = [clean EXCEPT !.twice = cleanUrlQueryParams(clean.once),
                              !.applied = 2]
    /\ UNCHANGED <<svars, hvars, lvars, wvars, xvars>>

UNext == CleanOnce \/ CleanAgain

SpecUrl == UInit /\ [][UNext]_vars

\* writeMarkdown alone, from every state of the notes directories
WStart ==
    /\ disk \in [dirs : InitialDirs, files : {<< >>}]
    /\ wcall = WriteIdle

WInit == SQuiet /\ HIdle /\ LIdle /\ UIdle /\ WStart /\ XIdle

WNext == WriteMarkdownBegin \/ WriteMarkdownFile \/ WriteMarkdownFileFails

SpecWrite == WInit /\ [][WNext]_vars

\* deepResearch alone, for every sequence of status responses
RInit == SQuiet /\ HIdle /\ LIdle /\ UIdle /\ WIdle /\ RIdle /\ TIdle

RNext ==
    \/ CallDeepResearch
    \/ ResearchStarted
    \/ ResearchStartFails
    \/ PollAnswer
    \/ PollThrows
    \/ PollTimer

SpecResearch == RInit /\ [][RNext]_vars

\* two tasks whose calls on the same object may overlap: one makes the
\* headless extractions, the other drafts messages
ExtractionTask(c) == c = "main" /\ CallFindConnectionsAtCompany(c)
DraftingTask(c) == c = "other" /\ CallDraftMessage(c)

ONext ==
    \E c \in Callers :
        \/ ExtractionTask(c) /\ UNCHANGED <<hvars, lvars, uvars, wvars, xvars>>
        \/ DraftingTask(c) /\ UNCHANGED <<hvars, lvars, uvars, wvars, xvars>>
        \/ WLReuse(c) /\ UNCHANGED <<hvars, lvars, uvars, wvars, xvars>>
        \/ WLLaunchBegin(c) /\ UNCHANGED <<hvars, lvars, uvars, wvars, xvars>>
        \/ WLLaunched(c) /\ UNCHANGED <<hvars, lvars, uvars, wvars, xvars>>
        \/ WLLaunchFails(c) /\ UNCHANGED <<hvars, lvars, uvars, wvars, xvars>>
        \/ WLPage(c) /\ UNCHANGED <<hvars, lvars, uvars, wvars, xvars>>
        \/ WLPageFails(c) /\ UNCHANGED <<hvars, lvars, uvars, wvars, xvars>>
        \/ WLLoadCookies(c) /\ UNCHANGED <<hvars, lvars, uvars, wvars, xvars>>
        \/ WLNoCookies(c) /\ UNCHANGED <<hvars, lvars, uvars, wvars, xvars>>
        \/ WLGoto(c) /\ UNCHANGED <<hvars, lvars, uvars, wvars, xvars>>
        \/ WLSettle(c) /\ UNCHANGED <<hvars, lvars, uvars, wvars, xvars>>
        \/ FnExtract(c) /\ UNCHANGED <<hvars, lvars, uvars, wvars, xvars>>
        \/ FnExtractFails(c) /\ UNCHANGED <<hvars, lvars, uvars, wvars, xvars>>
        \/ FnDraftNoButton(c) /\ UNCHANGED <<hvars, lvars, uvars, wvars, xvars>>
        \/ FnDraft(c) /\ UNCHANGED <<hvars, lvars, uvars, wvars, xvars>>
        \/ WLWaitTarget(c) /\ UNCHANGED <<hvars, lvars, uvars, wvars, xvars>>
        \/ WLFinally(c) /\ UNCHANGED <<hvars, lvars, uvars, wvars, xvars>>
        \/ ResumeThrow(c) /\ UNCHANGED <<hvars, lvars, uvars, wvars, xvars>>
        \/ ResumeConnections(c) /\ UNCHANGED <<hvars, lvars, uvars, wvars, xvars>>
        \/ ResumeDraft(c) /\ UNCHANGED <<hvars, lvars, uvars, wvars, xvars>>
        \/ Finish(c) /\ UNCHANGED <<hvars, lvars, uvars, wvars, xvars>>

SpecOverlap == Init /\ [][ONext]_vars

\* getToolsLazy alone, for every interleaving of its callers
TInit == SQuiet /\ HIdle /\ LIdle /\ UIdle /\ WIdle /\ RIdle /\ TIdle

TNext ==
    \E k \in ToolCallers :
        \/ RequestWithoutWorkflow(k)
        \/ GetToolsLazy(k)
        \/ ClientStarted(k)
        \/ ClientStartFails(k)

SpecTools == TInit /\ [][TNext]_vars

-----------------------------------------------------------------------------
(* Properties *)

Done(c) == call[c].pc = "done"

\* the current withLinkedin call found no cookie store
FoundNoCookies(c) == \E i \in 1..Len(call[c].ev) : call[c].ev[i] = "errorNoCookies"

\* C1: a traversal operation invoked while no cookie-store file exists never
\* calls page.goto: at every point of the call the number of navigations it
\* has attempted is zero, and the log of its current session holds no goto.
C1_NoNavigationWithoutCookieStore ==
    \A c \in Callers :
        (call[c].op # "idle" /\ cookieStore = "absent") =>
            /\ call[c].navs = 0
            /\ \A i \in 1..Len(call[c].ev) : call[c].ev[i] # "goto"

\* a findMutualConnections call has ended with no cookie store, after both
\* of its sessions met the missing store
C1_Witness ==
    \E c \in Callers :
        /\ Done(c) /\ cookieStore = "absent"
        /\ call[c].op = "findMutualConnections"
        /\ call[c].stage = "fallback"
        /\ FoundNoCookies(c)

C3_BrowserClosedOnExit ==
    \A c \in Callers :
        (call[c].pc = "resume" /\ call[c].browser # 0) =>
            browserState[call[c].browser] = "closed"

\* C4: every profile that extractProfilesFromLinkedin returns has a
\* profileUrl that is one of the job's own candidate URLs.
C4_ProfilesFromCandidates ==
    \A c \in Callers :
        (/\ call[c].pc = "resume"
         /\ call[c].stage \in ExtractStages
         /\ call[c].wl.kind = "return") =>
            \A i \in 1..Len(OrEmpty(call[c].wl.val)) :
                OrEmpty(call[c].wl.val)[i].profileUrl \in Range(call[c].cand)

IsCanonical(url) == cleanUrlQueryParams(url) = url

\* C5: every profile returned to the caller by findProfile,
\* findConnectionsAtCompany and findMutualConnections (the resolved person
\* included) has a profileUrl equal to its own cleanUrlQueryParams.
C5_ReturnedProfileUrlsCanonical ==
    \A c \in Callers :
        (/\ Done(c)
         /\ call[c].outcome.kind = "return"
         /\ call[c].op \in {"findProfile", "findConnectionsAtCompany",
                            "findMutualConnections"}) =>
            /\ \A i \in 1..Len(call[c].outcome.val.ps) :
                    IsCanonical(call[c].outcome.val.ps[i].profileUrl)
            /\ call[c].op = "findMutualConnections" =>
                    IsCanonical(call[c].person.profileUrl)

\* C6: the candidate list handed to reconciliation holds no two entries
\* with the same canonical URL.
C6_NoRepeatedCanonicalCandidate ==
    hDone =>
        \A i, j \in 1..Len(hCandidates) :
            i # j => cleanUrlQueryParams(hCandidates[i]) # cleanUrlQueryParams(hCandidates[j])

\* C7: the candidates are in first-seen DOM order: the candidate list is the
\* image, under cleanUrlQueryParams, of first occurrences of anchors taken at
\* strictly increasing DOM positions.
C7_FirstSeenOrderPreserved ==
    hDone =>
        \E f \in [1..Len(hCandidates) -> 1..Len(hAnchors)] :
            /\ \A i, j \in 1..Len(hCandidates) : i < j => f[i] < f[j]
            /\ \A i \in 1..Len(hCandidates) :
                /\ hCandidates[i] = cleanUrlQueryParams(hAnchors[f[i]])
                /\ \A k \in 1..(f[i] - 1) : hAnchors[k] # hAnchors[f[i]]

\* two candidates survive from a page on which an anchor is repeated after
\* another one
C7_Witness ==
    /\ hDone
    /\ Len(hCandidates) = 2
    /\ hCandidates[1] # hCandidates[2]
    /\ Len(hAnchors) = 3
    /\ hAnchors[1] = hAnchors[3]

\* the part of a URL after its first /in/, up to the next '/', '?' or '#'
ProfilePathSegment(url) ==
    LET at == IndexOfStr(url, InSegment)
    IN  IF at = 0 THEN <<>>
        ELSE SubSeq(url, at + Len(InSegment),
                    FirstOf(url, at + Len(InSegment), {"/", "?", "#"}) - 1)

SlugRunAt(url, k, n) ==
    LET from == k + Len(LinkedinComIn)
    IN  /\ StartsWithAt(url, k, LinkedinComIn)
        /\ n >= 1
        /\ from + n - 1 <= Len(url)
        /\ \A i \in from..(from + n - 1) : url[i] \in SlugChars
        /\ from + n <= Len(url) => url[from + n] \notin SlugChars

CompanyHits(c) ==
    {i \in 1..Len(call[c].resp) :
        \E k \in 1..(Len(call[c].resp[i].company) + 1) :
            StartsWithAt(ToLowerCase(call[c].resp[i].company), k,
                         ToLowerCase(call[c].companyName))}

\* C9: findConnectionsAtCompany returns exactly the profiles of the
\* reconciliation response whose company contains companyName, case ignored,
\* in response order; its search URL carries network F for degree first and
\* S for degree second.
C9_ConnectionsFilteredByCompany ==
    \A c \in Callers :
        call[c].op = "findConnectionsAtCompany" =>
            /\ call[c].url.kind = "search"
            /\ call[c].url.text = call[c].companyName
            /\ call[c].degree = "first" => call[c].url.network = "F"
            /\ call[c].degree = "second" => call[c].url.network = "S"
            /\ (Done(c) /\ call[c].outcome.kind = "return") =>
                LET out == call[c].outcome.val.ps
                IN  /\ Len(out) = Cardinality(CompanyHits(c))
                    /\ \E f \in [1..Len(out) -> 1..Len(call[c].resp)] :
                        /\ \A i, j \in 1..Len(out) : i < j => f[i] < f[j]
                        /\ \A i \in 1..Len(out) :
                                f[i] \in CompanyHits(c) /\ out[i] = call[c].resp[f[i]]

\* the response names a matching company first and another one second, and
\* exactly the first profile is returned
C9_Witness ==
    \E c \in Callers :
        /\ Done(c) /\ call[c].op = "findConnectionsAtCompany"
        /\ call[c].degree = "second"
        /\ Len(call[c].resp) = 2
        /\ call[c].resp[1].company = Str_XAc
        /\ call[c].resp[2].company = Str_Oth
        /\ call[c].outcome = Returned(ProfilesV(<<call[c].resp[1]>>))

\* C10 as stated: with exactly one 'View full profile' anchor on the search
\* page findProfile returns {personName, '', '', the anchor's href} and never
\* invokes reconciliation; with zero or several the shortcut is not taken.
C10_ShortcutOnExactlyOneAnchor ==
    \A c \in Callers :
        (Done(c) /\ call[c].op = "findProfile" /\ call[c].probed) =>
            /\ Len(call[c].links) = 1 =>
                /\ call[c].outcome =
                        Returned(ProfileV(Profile(call[c].personName, <<>>, <<>>,
                                                  call[c].links[1].href)))
                /\ call[c].recons = 0
            /\ Len(call[c].links) # 1 => ~call[c].shortcut

\* the positions of the anchors that carry an href attribute
WithHref(c) == {i \in 1..Len(call[c].links) : call[c].links[i].hasHref}

\* C10 amended: the anchors counted are those carrying an href attribute;
\* with exactly one of them, its href not empty, findProfile returns
\* {personName, '', '', that href} and never invokes reconciliation;
\* otherwise the shortcut is not taken.
C10_ShortcutOnExactlyOneHref ==
    \A c \in Callers :
        (Done(c) /\ call[c].op = "findProfile" /\ call[c].probed) =>
            LET one == /\ Cardinality(WithHref(c)) = 1
                       /\ \A i \in WithHref(c) : call[c].links[i].href # <<>>
            IN  /\ one =>
                    /\ call[c].shortcut
                    /\ call[c].recons = 0
                    /\ \A i \in WithHref(c) :
                        call[c].outcome =
                            Returned(ProfileV(Profile(call[c].personName, <<>>, <<>>,
                                                      call[c].links[i].href)))
                /\ ~one => ~call[c].shortcut

C10_Witness ==
    \E c \in Callers :
        /\ Done(c) /\ call[c].op = "findProfile"
        /\ call[c].shortcut
        /\ call[c].recons = 0
        /\ Len(call[c].links) = 2
        /\ call[c].outcome.val.ps[1].profileUrl = ProfileJoQ

\* the positions of the profiles the fallback pipeline returned whose name
\* contains the person's name, whatever the case of either
NameHits(c) ==
    LET returned == OrEmpty(call[c].wl.val)
    IN  {i \in 1..Len(returned) :
            \E k \in 1..(Len(returned[i].name) + 1) :
                /\ k + Len(call[c].personName) - 1 <= Len(returned[i].name)
                /\ \A j \in 1..Len(call[c].personName) :
                        LowerChar(returned[i].name[k + j - 1]) =
                            LowerChar(call[c].personName[j])}

\* C11: a findProfile call whose shortcut did not apply and whose pipeline
\* returned a list ends with the first profile of that list, in response
\* order, whose name contains personName case-insensitively; a findProfile
\* call that went to the fallback ends with the not-found error exactly when
\* the pipeline returned and none of the returned profiles matches.
C11_FallbackFirstNameMatch ==
    \A c \in Callers :
        (Done(c) /\ call[c].op = "findProfile" /\ call[c].stage = "fallback") =>
            /\ (call[c].wl.kind = "return" /\ NameHits(c) # {}) =>
                    \E i \in NameHits(c) :
                        /\ \A j \in NameHits(c) : i <= j
                        /\ call[c].outcome =
                                Returned(ProfileV(OrEmpty(call[c].wl.val)[i]))
            /\ call[c].outcome = Thrown("No profile found") <=>
                    (call[c].wl.kind = "return" /\ NameHits(c) = {})

\* the pipeline answered with two matching profiles of different URLs, and
\* the first one is returned
C11_Witness ==
    \E c \in Callers :
        /\ Done(c) /\ call[c].op = "findProfile" /\ call[c].stage = "fallback"
        /\ Len(call[c].resp) = 2
        /\ call[c].resp[1].name = Str_Jo
        /\ call[c].resp[2].name = Str_Jo
        /\ call[c].resp[1].profileUrl # call[c].resp[2].profileUrl
        /\ call[c].outcome = Returned(ProfileV(call[c].resp[1]))

\* the positions of the profile page's links that contain both the
\* first-degree facetNetwork marker and the facetConnectionOf marker
MarkerLinks(c) ==
    {i \in 1..Len(call[c].links) :
        /\ \E k \in 1..Len(call[c].links[i]) : StartsWithAt(call[c].links[i], k, FacetF)
        /\ \E k \in 1..Len(call[c].links[i]) :
                StartsWithAt(call[c].links[i], k, FacetConnectionOf)}

\* the session that reads the resolved person's profile page has read it
MarkerPageRead(c) ==
    /\ call[c].op = "findMutualConnections"
    /\ \/ call[c].stage = "mutuals"
       \/ /\ call[c].stage = "marker" /\ call[c].pc \in {"resume", "done"}
          /\ call[c].wl.kind = "return"

\* C12: once findMutualConnections has read the resolved person's profile
\* page, if no link of the page contains both markers the call ends by
\* returning no mutuals and the resolved person, never entering the
\* extraction pipeline for mutuals (no further session, no reconciliation
\* after the person was resolved); if some link does, the pipeline is
\* entered with the URL of the first such link.
C12_MutualsOnlyThroughMarkerLink ==
    \A c \in Callers :
        MarkerPageRead(c) =>
            /\ MarkerLinks(c) = {} =>
                /\ call[c].stage = "marker"
                /\ \A i \in 1..Len(call[c].ev) : call[c].ev[i] # "reconcile"
                /\ Done(c) =>
                    /\ call[c].outcome = Returned(ProfilesV(<<>>))
                    /\ call[c].person # NoProfile
            /\ (MarkerLinks(c) # {} /\ call[c].pc # "resume") =>
                /\ call[c].stage = "mutuals"
                /\ \E i \in MarkerLinks(c) :
                    /\ \A j \in MarkerLinks(c) : i <= j
                    /\ call[c].url = HrefUrl(call[c].links[i])

\* a page whose links carry the two markers only on different links gave
\* no mutuals; the person had been resolved through the pipeline
C12_Witness ==
    \E c \in Callers :
        /\ Done(c) /\ MarkerPageRead(c)
        /\ call[c].links = <<SecondDegreeHref, NetworkOnlyHref>>
        /\ call[c].recons = 1
        /\ call[c].outcome = Returned(ProfilesV(<<>>))
        /\ call[c].person.name = Str_Jo

\* the wait of the current draftMessage call for a message control ended
\* without one
NoControlAppeared(c) ==
    \E i \in 1..Len(call[c].ev) : call[c].ev[i] = "errorNoButton"

\* no click and no keystroke in the current session
NothingEmitted(c) ==
    \A i \in 1..Len(call[c].ev) : call[c].ev[i] \notin {"click1", "click2", "type"}

\* C13 as stated: a draftMessage call in which no message control appeared
\* within the wait ends by returning false, never by throwing, and emits no
\* click and no keystrokes.
C13_NoControlReturnsFalse ==
    \A c \in Callers :
        NoControlAppeared(c) =>
            /\ NothingEmitted(c)
            /\ Done(c) => call[c].outcome = Returned(BoolV(FALSE))

\* C13 amended: a draftMessage call in which no message control appeared
\* within the wait emits no click and no keystrokes, and its callback
\* returns false; the call returns false when the wait of the headed
\* session for a browser target that follows the callback succeeds, and
\* throws the error of that wait, and no other, when it fails.
C13_NoControlFalseUnlessTargetWaitFails ==
    \A c \in Callers :
        NoControlAppeared(c) =>
            /\ NothingEmitted(c)
            /\ call[c].pc = "waitTarget" => call[c].pend = Returned(BoolV(FALSE))
            /\ Done(c) =>
                /\ call[c].wl.kind = "return" =>
                        call[c].outcome = Returned(BoolV(FALSE))
                /\ call[c].wl.kind = "throw" =>
                        call[c].outcome = Thrown("TargetError")

C13_Witness ==
    \E c \in Callers :
        /\ Done(c) /\ call[c].op = "draftMessage"
        /\ NoControlAppeared(c)
        /\ call[c].outcome = Returned(BoolV(FALSE))

\* the positions of step k in the log of the current withLinkedin call
StepsAt(c, k) == {i \in 1..Len(call[c].ev) : call[c].ev[i] = k}

\* fn has been invoked in the current withLinkedin call
FnRan(c) == StepsAt(c, "fn") # {}

\* C14 as stated: whenever fn has been invoked in a withLinkedin call, the
\* stored cookies were applied to the page, then the page was navigated,
\* then the settle delay elapsed, each once and in this order, before fn.
C14_CookiesGotoSettleThenFn ==
    \A c \in Callers :
        FnRan(c) =>
            \E i \in StepsAt(c, "setCookie"), j \in StepsAt(c, "goto"),
               k \in StepsAt(c, "settle"), l \in StepsAt(c, "fn") :
                /\ i < j /\ j < k /\ k < l
                /\ StepsAt(c, "setCookie") = {i} /\ StepsAt(c, "goto") = {j}
                /\ StepsAt(c, "settle") = {k} /\ StepsAt(c, "fn") = {l}

\* C15: every step in which a timer tick of login, having observed the
\* cookies of the browser, finishes, leaves the cookie store holding exactly
\* the observed set (whatever the store held before) when that set is not
\* empty, and leaves the store as it was when the set is empty.
C15_TickOverwritesWithObservedSet ==
    [][\A t \in 1..MaxInFlight :
        (login.ticks[t].st = "answered" /\ login'.ticks[t].st = "free") =>
            /\ login.ticks[t].obs # {} =>
                /\ cookieStore' = "valid"
                /\ storedCookies' = login.ticks[t].obs
            /\ login.ticks[t].obs = {} =>
                /\ cookieStore' = cookieStore
                /\ storedCookies' = storedCookies]_vars

\* a tick has replaced a store holding one cookie by its capture of another
\* cookie only
C15_Witness ==
    /\ login.writes = 1
    /\ login.prev = {"li_at"}
    /\ login.last = {"JSESSIONID"}
    /\ storedCookies = {"JSESSIONID"}
    /\ cookieStore = "valid"

\* the error raised at a place of login has been made known
Surfaced(r) ==
    \E rep \in login.reports : rep.at = r.at /\ rep.error = r.error

\* C16: of the errors raised during login, those of the detached-frame
\* navigation race are made known through no channel and do not reject
\* login, and every other one is made known: by console.error, by
\* console.warn, by the rejection of login or by the runtime's report of an
\* unhandled rejection.
C16_DetachedSwallowedOthersSurfaced ==
    \A r \in login.raised :
        /\ r.error.cause = "detachedFrame" => (~Surfaced(r) /\ login.pc = "returned")
        /\ r.error.cause # "detachedFrame" => Surfaced(r)

\* login has returned after a detached-frame error, of which nothing is
\* reported, having warned of a cookie store it could not load
C16_Witness ==
    /\ login.pc = "returned"
    /\ \E r \in login.raised :
        /\ r.at = "waitFeed" /\ r.error.cause = "detachedFrame"
        /\ r.error.message # DetachedText
    /\ \E r \in login.raised : r.at = "load" /\ ~r.error.hasMessage
    /\ Cardinality(login.reports) = 1
    /\ \A rep \in login.reports : rep.channel = "consoleWarn"

\* C17: a draftMessage call that comes to acquire its browser while the
\* object holds an open browser goes on with that very browser and no
\* browser is launched; a call of any other traversal operation goes from
\* the acquisition of every withLinkedin call to puppeteer.launch, and the
\* browser a launch gives was not open before.
C17_DraftReusesOthersLaunch ==
    [][\A c \in Callers :
        /\ (call[c].pc = "acquire" /\ call'[c] # call[c]) =>
            /\ (/\ call[c].op = "draftMessage"
                /\ thisBrowser # 0
                /\ browserState[thisBrowser] = "open") =>
                    /\ call'[c].pc = "pages"
                    /\ call'[c].browser = thisBrowser
                    /\ browserState' = browserState
                    /\ thisBrowser' = thisBrowser
            /\ call[c].op # "draftMessage" => call'[c].pc = "launching"
        /\ (call[c].pc = "launching" /\ call'[c].pc = "pages") =>
            /\ browserState[call'[c].browser] # "open"
            /\ browserState'[call'[c].browser] = "open"]_vars

\* a draftMessage call runs its callback in a browser that an earlier call
\* had launched and left open
C17_Witness ==
    \E c \in Callers :
        /\ call[c].op = "draftMessage" /\ call[c].pc = "fn"
        /\ StepsAt(c, "reuse") # {} /\ StepsAt(c, "launch") = {}
        /\ browserState[call[c].browser] = "open"
        /\ thisBrowser = call[c].browser

\* the errors of navigation, of the page calls of the harvester and of
\* reconciliation
PipelineErrors == {"NavigationError", "PageCallError", "ReconciliationFailure"}

\* the current session of the call has failed with one of them
PipelineFailed(c) ==
    /\ call[c].pc \in {"finally", "resume", "done"}
    /\ call[c].pend.kind = "throw"
    /\ call[c].pend.err \in PipelineErrors

\* C18: no withLinkedin call attempts navigation more than once; and from the
\* failure of navigation, of the harvester or of reconciliation on, every
\* step of the traversal call only closes the browser, leaves the session
\* and ends the call with that very error: the call navigates no more and no
\* browser is launched.
C18_NoRetryAfterPipelineFailure ==
    [][\A c \in Callers :
        /\ Cardinality({i \in 1..Len(call'[c].ev) : call'[c].ev[i] = "goto"}) <= 1
        /\ (PipelineFailed(c) /\ call'[c] # call[c]) =>
            /\ call'[c].pc \in {"resume", "done", "idle"}
            /\ call'[c].pc # "idle" =>
                /\ call'[c].navs = call[c].navs
                /\ call'[c].pend = call[c].pend
            /\ call'[c].pc = "done" => call'[c].outcome = call[c].pend
            /\ \A b \in BrowserIds :
                browserState'[b] = "open" => browserState[b] = "open"]_vars

\* a findProfile call has ended with the navigation error of its first
\* session, having navigated once and not gone on to the pipeline
C18_Witness ==
    \E c \in Callers :
        /\ Done(c) /\ call[c].op = "findProfile"
        /\ call[c].stage = "shortcut"
        /\ call[c].outcome = Thrown("NavigationError")
        /\ call[c].navs = 1 /\ call[c].recons = 0

\* C19: for every string u, cleanUrlQueryParams applied to
\* cleanUrlQueryParams(u) gives cleanUrlQueryParams(u).
C19_CleanIdempotent ==
    clean.applied = 2 => clean.twice = clean.once

\* the directories a writeMarkdown call is to write into: the notes
\* directory and, when a subdirectory is asked for, that subdirectory
WantedDirs ==
    {NotesDir} \cup
    (IF wcall.subdirectory # <<>> THEN {NotesDir \o wcall.subdirectory} ELSE {})

Clicks(c) == StepsAt(c, "click1") \cup StepsAt(c, "click2")

\* C21: in a draftMessage call there is never more than one click, and
\* keystrokes are emitted only after a click and then the delay; a call whose
\* callback has returned true found at least one control and made exactly
\* one click, on the second control when it found two or more and on the
\* only control when it found one, followed by the delay and the keystrokes.
C21_SecondControlClickDelayType ==
    \A c \in Callers :
        call[c].op = "draftMessage" =>
            /\ Cardinality(Clicks(c)) <= 1
            /\ \A t \in StepsAt(c, "type") :
                \E k \in Clicks(c), d \in StepsAt(c, "delay") : k < d /\ d < t
            /\ (call[c].pc \in {"waitTarget", "finally", "resume", "done"}
                    /\ call[c].pend = Returned(BoolV(TRUE))) =>
                /\ call[c].buttons >= 1
                /\ Cardinality(Clicks(c)) = 1
                /\ Cardinality(StepsAt(c, "type")) = 1
                /\ call[c].buttons >= 2 =>
                        (StepsAt(c, "click2") # {} /\ StepsAt(c, "click1") = {})
                /\ call[c].buttons = 1 =>
                        (StepsAt(c, "click1") # {} /\ StepsAt(c, "click2") = {})

\* three controls were found, the second was clicked and the message typed
C21_Witness ==
    \E c \in Callers :
        /\ Done(c) /\ call[c].op = "draftMessage"
        /\ call[c].buttons = 3
        /\ call[c].outcome = Returned(BoolV(TRUE))
        /\ StepsAt(c, "click2") # {} /\ StepsAt(c, "type") # {}

\* C22: over a whole run of deepResearch, no two calls of onActivity are for
\* the same activity, an activity being its type, message and depth, however
\* often the status responses list it
C22_EachActivityReportedOnce ==
    \A i, j \in 1..Len(research.reported) :
        Identity(research.reported[i]) = Identity(research.reported[j]) => i = j

\* a run that resolved after a later response listed again an activity that
\* had been reported
C22_Witness ==
    /\ research.promise = "resolved"
    /\ research.requests >= 2
    /\ research.relisted
    /\ Len(research.reported) >= 2

TerminalStatuses == {"completed", "failed", "error"}

\* C23: once a response carries a terminal status or a status request throws,
\* the promise is settled, resolved with the data on completed and rejected
\* otherwise, and that response was the last one asked for; another poll is
\* scheduled only after a non-terminal status
C23_TerminalStatusSettles ==
    LET st == research.statuses
    IN  /\ \A i \in 1..Len(st) :
              st[i] \in TerminalStatuses \cup {"threw"} =>
                  /\ i = Len(st)
                  /\ research.pc = "settled"
                  /\ research.requests = i
                  /\ IF st[i] = "completed" /\ research.by # "callback"
                     THEN research.promise = "resolved"
                     ELSE research.promise = "rejected"
        /\ research.pc = "scheduled" =>
              st[Len(st)] \notin TerminalStatuses \cup {"threw"}

\* C24: when login ends successfully, the landing page reached and the
\* process exited, the store was written by the capture timer at some moment
\* after the landing page was reached
C24_CaptureAfterLanding ==
    login.pc = "exited" => login.writeAt \cap {"delay", "close"} # {}

\* C25: once login has returned or rejected with its browser launched, the
\* capture timer is not running and the browser is closed, and the store is
\* never written after login returned
C25_ExitStopsTimerAndBrowser ==
    /\ login.pc \in {"returned", "rejected", "exited"} /\ login.browser # "none" =>
          /\ login.timer # "running"
          /\ login.browser = "closed"
    /\ login.writeAt \cap {"returned", "rejected", "exited"} = {}

\* C26: while no caller is inside withLinkedin, the field this.browser is
\* undefined
C26_HandleEmptyBetweenCalls ==
    (\A c \in Callers : call[c].pc \in {"idle", "resume", "done"}) => thisBrowser = 0

\* C28: a withLinkedin call in which reading, parsing or applying the stored
\* cookies failed does not navigate to its URL
C28_NoNavigationAfterCookieFailure ==
    \A c \in Callers :
        StepsAt(c, "warnCookies") # {} => StepsAt(c, "goto") = {}

\* what SDR.draftMessage gives its caller once the draftMessage call of c has
\* settled
SDRResult(c) == SDRDraftMessage(call[c].outcome, Str_jo, <<"h","i">>)

\* C30: when LinkedIn.draftMessage has returned false, the result of
\* SDR.draftMessage does not say that a draft message was opened
C30_FalseNotReportedAsOpened ==
    \A c \in Callers :
        (/\ Done(c) /\ call[c].op = "draftMessage"
         /\ call[c].outcome = Returned(BoolV(FALSE))) =>
            ~(/\ SDRResult(c).kind = "return"
              /\ Includes(SDRResult(c).text, Str_OpenedDraft))

\* C29: startClientAndGetTools is invoked at most once, and all callers that
\* getToolsLazy has answered hold the same tools object
C29_ClientsStartedOnce ==
    /\ getting.starts <= 1
    /\ \A j, k \in ToolCallers :
          (getting.at[j] = "returned" /\ getting.at[k] = "returned") =>
              getting.got[j] = getting.got[k]

\* C27: while a call is navigating, waiting for the page to settle or
\* running its fn, its browser is open and the field this.browser is set,
\* whatever another call on the same object does meanwhile
C27_NoTeardownUnderAnotherCall ==
    \A c \in Callers :
        call[c].pc \in {"goto", "settle", "fn"} =>
            /\ browserState[call[c].browser] = "open"
            /\ thisBrowser # 0

====
